---- MODULE Spec2Model ----
(***************************************************************************)
(* Model of the signalling core of the redfire gateway:                    *)
(*   - DChannelHandler  (src/src/protocols/d-channel.ts)   LAPD engine     *)
(*   - NFASManager      (src/src/protocols/nfas-manager.ts)                *)
(*   - SigtranISUPHandler (src/unnamed/part_001)           ISUP / CIC pool *)
(*   - SIPHandler       (src/src/protocols/sip.ts)         SIP sessions    *)
(*   - ProtocolTranslator (src/src/interfaces/freetdm.ts)  Q.931/ISUP<->SIP *)
(*   - FeatureGroupHandler (src/src/protocols/feature-group.ts)            *)
(*                                                                         *)
(* Each handler of the source is one operator that maps the object before  *)
(* the call to the object after it together with the frames, events and    *)
(* exceptions the call produced.  The actions of the specifications apply  *)
(* these operators to inputs drawn from small sets.                        *)
(*                                                                         *)
(* JavaScript runs every callback to completion on one thread.  An `await` *)
(* on an async function that itself never waits for I/O or a timer is      *)
(* resumed from the microtask queue, before any timer or I/O callback, so  *)
(* start(), stop() and performSwitchover() are atomic with respect to the  *)
(* frames and timer expiries that drive the model.  A caller that does not *)
(* await forceSwitchover() can call it again in the same tick: the calls   *)
(* of performSwitchover suspended at their first await are `switchovers`.  *)
(***************************************************************************)
EXTENDS Integers, Sequences, FiniteSets, TLC

VARIABLES
    dch,            \* a stand-alone DChannelHandler (its private fields + config)
    dchOut,         \* frames it emitted ('frameOut') during the last step
    dchEv,          \* events it emitted during the last step
    dchOp,          \* the operation of the last step and its input
    spans,          \* NFAS group: span id -> DChannelHandler
    grp,            \* NFAS group: state and activeSpan
    stats,          \* NFASStatistics of the group
    mgrRunning,     \* NFASManager.isRunning
    nfasOut,        \* frames emitted by the group's engines during the last step
    nfasEv,         \* events emitted (engines and manager) during the last step
    nfasOp,         \* the operation of the last step
    switchovers,    \* the calls of performSwitchover suspended at their first
                    \* await, oldest first: the candidate spans each captured
    calls,          \* SigtranISUPHandler.calls : CIC -> ISUPCall
    availableCICs,  \* SigtranISUPHandler.availableCICs, in Set insertion order
    isupRunning,    \* SigtranISUPHandler.isRunning
    isupOut,        \* ISUP messages emitted ('messageOut') during the last step
    isupEv,         \* events emitted by the ISUP handler during the last step
    isupOp,         \* the operation of the last step, its input and result
    sessions,       \* SIPHandler.sessions : Call-ID -> CallSession
    sipRunning,     \* SIPHandler.isRunning
    now,            \* the wall clock read by `new Date()`
    sipOut,         \* SIP messages emitted ('messageOut') during the last step
    sipEv,          \* events emitted by the SIP handler during the last step
    sipOp,          \* the operation of the last step, its input and result
    codecIn,        \* the argument of the last conversion applied
    codecOut,       \* what that conversion returned or threw
    codecOp,        \* the conversion applied in the last step
    firstVariant,   \* TranslationContext.variant of the call session's first
                    \* translation ("" before it)
    fgCalls,        \* FeatureGroupHandler: the FeatureGroupCall objects by call id
    activeCalls,    \* FeatureGroupHandler.activeCalls: the ids in the table
    timers,         \* FeatureGroupHandler.timers: the keys <<id, kind>> armed
    dialing,        \* the timeouts and continuations no table holds: call id ->
                    \* the step that runs next and the tones still to send
    fgEv,           \* events the Feature Group handler emitted during the last step
    fgOp            \* the operation of the last step

lapdVars == <<dch, dchOut, dchEv, dchOp>>
nfasVars == <<spans, grp, stats, mgrRunning, nfasOut, nfasEv, nfasOp, switchovers>>
isupVars == <<calls, availableCICs, isupRunning, isupOut, isupEv, isupOp>>
sipVars  == <<sessions, sipRunning, now, sipOut, sipEv, sipOp>>
codecVars == <<codecIn, codecOut, codecOp, firstVariant>>
fgVars == <<fgCalls, activeCalls, timers, dialing, fgEv, fgOp>>
vars == <<lapdVars, nfasVars, isupVars, sipVars, codecVars, fgVars>>

(***************************************************************************)
(* Bounds of the model and constants of the program                        *)
(***************************************************************************)
\* CIC range 1..MaxCIC (the constructor fills 1..1000)
MaxCIC == 2
\* cap on the wall clock
MaxClock == 1
\* cap on the counters of the NFAS statistics
MaxCount == 2
\* calls of performSwitchover suspended at a time
MaxPending == 2
\* length of the numbers of an IAM
MaxDigits == 2
\* Feature Group calls made
MaxCalls == 2
\* sequence numbers are kept modulo 128
Modulus == 128
\* maxRetransmissions of the handlers the NFAS manager creates
N200 == 3

(***************************************************************************)
(* Generic helpers                                                         *)
(***************************************************************************)
\* `const v = val; Body(v)`: val is computed once and then named
Bind(val, Body(_)) == Body(val)

RECURSIVE SelectSeqBy(_, _)
\* Array.prototype.filter with the predicate given as a set of kept elements
SelectSeqBy(s, keep) ==
    IF s = <<>> THEN <<>>
    ELSE IF Head(s) \in keep THEN <<Head(s)>> \o SelectSeqBy(Tail(s), keep)
         ELSE SelectSeqBy(Tail(s), keep)

Range(s) == {s[i] : i \in 1..Len(s)}

Min(a, b) == IF a < b THEN a ELSE b

(***************************************************************************)
(* LAPD frames on the wire                                                 *)
(* A Buffer is a sequence of octets (0..255).  A parsed frame (LAPDFrame)  *)
(* is a record; `sub` is control.supervisory or control.unnumbered         *)
(* ("undefined" for a U-frame control octet the parser does not know),     *)
(* hasInfo tells whether `information` is present.                         *)
(* A conversion returns [thrown, value]: thrown is "none" when it returned.*)
(***************************************************************************)
Returned(v) == [thrown |-> "none", value |-> v]
Raised(what) == [thrown |-> what, value |-> <<>>]

\* a bit of an integer: (x & (1 << n)) !== 0
Bit(x, n) == (x \div (2 ^ n)) % 2 = 1

\* the JavaScript ^ of two octets
RECURSIVE BitXor(_, _)
BitXor(a, b) ==
    IF a = 0 THEN b
    ELSE IF b = 0 THEN a
    ELSE ((a + b) % 2) + 2 * BitXor(a \div 2, b \div 2)

\* Buffer.slice(from, to), offsets counted from 0
Slice(data, from, to) == SubSeq(data, from + 1, to)

\* Buffer.readUInt16LE(offset)
readUInt16LE(data, offset) == data[offset + 1] + 256 * data[offset + 2]

\* x ^ (1 << n)
FlipBit(x, n) == IF Bit(x, n) THEN x - 2 ^ n ELSE x + 2 ^ n

\* one pass of the inner loop of calculateFCS: the register is shifted left
\* and, when its top bit was set, xor-ed with 0x1021 (bits 12, 5 and 0)
crcShift(fcs) ==
    IF fcs >= 32768
    THEN FlipBit(FlipBit(FlipBit((fcs * 2) % 65536, 12), 5), 0)
    ELSE (fcs * 2) % 65536

\* the state of the register after every value it can hold has been
\* shifted 8 times
RECURSIVE crcShifts(_, _)
\* the inner loop of calculateFCS: j shifts of the register
crcShifts(fcs, j) == IF j = 0 THEN fcs ELSE crcShift(crcShifts(fcs, j - 1))

crcShift8 == [x \in 0..65535 |-> crcShifts(x, 8)]

RECURSIVE crcOctets(_, _)
\* the outer loop of calculateFCS over the first n octets of data:
\* fcs ^= data[i] << 8, then the 8 shifts
crcOctets(data, n) ==
    IF n = 0 THEN 65535
    ELSE LET fcs == crcOctets(data, n - 1)
         IN  crcShift8[BitXor(fcs \div 256, data[n]) * 256 + (fcs % 256)]

\* DChannelHandler.calculateFCS
calculateFCS(data) == 65535 - crcOctets(data, Len(data))

\* the unnumberedTypes table of parseLAPDFrame, the uTypes table of buildLAPDFrame
UTypeCodes ==
    [SABME |-> 111, DM |-> 15, UI |-> 3, DISC |-> 67, UA |-> 99, FRMR |-> 135, XID |-> 175]

STypeNames == <<"RR", "RNR", "REJ", "SREJ">>

LAPDFrame(sapi, cr, ea0, tei, ea1, type, sub, ns, nr, pf, hasInfo, information, fcs) ==
    [sapi |-> sapi, cr |-> cr, ea0 |-> ea0, tei |-> tei, ea1 |-> ea1,
     type |-> type, sub |-> sub, ns |-> ns, nr |-> nr, pf |-> pf,
     hasInfo |-> hasInfo, information |-> information, fcs |-> fcs]

\* DChannelHandler.parseLAPDFrame
parseLAPDFrame(data) ==
    IF Len(data) < 4 THEN Raised("LAPD frame too short")
    ELSE
    LET addr1 == data[1]
        addr2 == data[2]
        ctrl  == data[3]
        isI   == ctrl % 2 = 0
        isS   == ctrl % 4 = 1
        uType == ctrl - (IF Bit(ctrl, 4) THEN 16 ELSE 0)
        uName == IF \E k \in DOMAIN UTypeCodes : UTypeCodes[k] = uType
                 THEN CHOOSE k \in DOMAIN UTypeCodes : UTypeCodes[k] = uType
                 ELSE "undefined"
        offset == IF isI \/ isS THEN 4 ELSE 3
        hasInfo == offset < Len(data) - 2
    IN  Returned(LAPDFrame(
            (addr1 \div 4) % 64, Bit(addr1, 1), Bit(addr1, 0),
            (addr2 \div 2) % 128, Bit(addr2, 0),
            IF isI THEN "I" ELSE IF isS THEN "S" ELSE "U",
            IF isI THEN "I" ELSE IF isS THEN STypeNames[((ctrl \div 4) % 4) + 1] ELSE uName,
            IF isI THEN (ctrl \div 2) % 128 ELSE -1,
            IF isI \/ isS THEN (data[4] \div 2) % 128 ELSE -1,
            IF isI \/ isS THEN Bit(data[4], 0) ELSE Bit(ctrl, 4),
            hasInfo,
            IF hasInfo THEN Slice(data, offset, Len(data) - 2) ELSE <<>>,
            readUInt16LE(data, Len(data) - 2)))

\* the octets buildLAPDFrame writes before the FCS: address, control and
\* information (a Buffer element keeps the low 8 bits of what is stored)
frameBody(frame) ==
    LET addr == << (frame.sapi * 4 + (IF frame.cr THEN 2 ELSE 0)
                                   + (IF frame.ea0 THEN 1 ELSE 0)) % 256,
                   (frame.tei * 2 + (IF frame.ea1 THEN 1 ELSE 0)) % 256 >>
        pfBit == IF frame.pf THEN 1 ELSE 0
        sCode == CHOOSE i \in 0..3 : STypeNames[i + 1] = frame.sub
        uCode == IF frame.sub \in DOMAIN UTypeCodes THEN UTypeCodes[frame.sub] ELSE 3
        ctrl == CASE frame.type = "I" -> << (frame.ns * 2) % 256, (frame.nr * 2 + pfBit) % 256 >>
                  [] frame.type = "S" -> << 1 + sCode * 4, (frame.nr * 2 + pfBit) % 256 >>
                  [] OTHER -> << uCode + (IF frame.pf /\ ~Bit(uCode, 4) THEN 16 ELSE 0) >>
    IN  addr \o ctrl \o (IF frame.hasInfo THEN frame.information ELSE <<>>)

\* a frame as transmitted: the body followed by its FCS, low octet first
withFCS(body, fcs) == body \o <<fcs % 256, fcs \div 256>>

\* the `length` buildLAPDFrame allocates its Buffer with
frameLength(frame) ==
    (IF frame.type \in {"I", "S"} THEN 5 ELSE 4)
        + (IF frame.hasInfo THEN Len(frame.information) ELSE 0)

\* the end of buildLAPDFrame: the FCS of the `offset` octets written is
\* stored at `offset` of a Buffer of `length` octets; Buffer.writeUInt16LE
\* throws a RangeError unless offset + 2 <= length
writeFCS(body, length) ==
    IF Len(body) + 2 > length
    THEN Raised("RangeError")
    ELSE Returned(body \o <<calculateFCS(body) % 256, calculateFCS(body) \div 256>>
                       \o [i \in 1..(length - Len(body) - 2) |-> 0])

\* DChannelHandler.buildLAPDFrame
buildLAPDFrame(frame) == writeFCS(frameBody(frame), frameLength(frame))

(***************************************************************************)
(* Q.931 messages on the wire                                              *)
(* A parsed message (Q931Message) is a record; its informationElements is  *)
(* the sequence of [id, data] in the order of the octets.                  *)
(***************************************************************************)
\* data[offset] of a Buffer: undefined past the end, and undefined & mask is 0
octetAt(data, offset) == IF offset < Len(data) THEN data[offset + 1] ELSE 0

\* a | 0x80 for a non-negative a
BitOr128(a) == IF Bit(a, 7) THEN a ELSE a + 128

RECURSIVE parseCallRefValue(_, _)
\* the loop `callRefValue = (callRefValue << 8) | (data[offset++] & mask)` of
\* parseQ931Message after its first n rounds; the call reference starts at
\* octet 2 and the mask of the first octet is 0x7F
parseCallRefValue(data, n) ==
    IF n = 0 THEN 0
    ELSE parseCallRefValue(data, n - 1) * 256
            + (IF n = 1 THEN octetAt(data, 2) % 128 ELSE octetAt(data, n + 1))

RECURSIVE parseIEs(_, _)
\* the loop `while (offset < data.length)` of parseQ931Message: an id with
\* bit 8 set is a single-octet element, any other id is followed by a length
\* and that many octets (Buffer.slice stops at the end of the Buffer)
parseIEs(data, offset) ==
    IF offset >= Len(data) THEN <<>>
    ELSE IF Bit(data[offset + 1], 7)
    THEN <<[data |-> <<>>, id |-> data[offset + 1]]>> \o parseIEs(data, offset + 1)
    ELSE IF offset + 1 >= Len(data)
    THEN <<[data |-> <<>>, id |-> data[offset + 1]]>>
    ELSE <<[data |-> Slice(data, offset + 2, Min(offset + 2 + data[offset + 2], Len(data))),
            id |-> data[offset + 1]]>>
         \o parseIEs(data, offset + 2 + data[offset + 2])

\* DChannelHandler.parseQ931Message
parseQ931Message(data) ==
    IF Len(data) < 3 THEN Raised("Q.931 message too short")
    ELSE LET callRefLength == data[2] % 16
         IN  Returned([protocolDiscriminator |-> data[1],
                       callReference |-> [value  |-> parseCallRefValue(data, callRefLength),
                                          length |-> callRefLength,
                                          flag   |-> Bit(octetAt(data, 2), 7)],
                       messageType |-> octetAt(data, 2 + callRefLength),
                       informationElements |-> parseIEs(data, 3 + callRefLength)])

RECURSIVE buildCallRef(_, _)
\* the loop `for (i = length - 1; i >= 0; i--) buffer[offset++] = (crv >> (i * 8)) & 0xFF`
buildCallRef(crv, n) ==
    IF n = 0 THEN <<>>
    ELSE <<(crv \div (256 ^ (n - 1))) % 256>> \o buildCallRef(crv, n - 1)

RECURSIVE buildIEs(_)
\* the second loop over message.informationElements of buildQ931Message
buildIEs(ies) ==
    IF ies = <<>> THEN <<>>
    ELSE (IF Bit(Head(ies).id, 7)
          THEN <<Head(ies).id>>
          ELSE <<Head(ies).id, Len(Head(ies).data) % 256>> \o Head(ies).data)
         \o buildIEs(Tail(ies))

\* DChannelHandler.buildQ931Message; the Buffer is allocated with the length
\* the first loop computes, which is the number of octets written
buildQ931Message(message) ==
    <<message.protocolDiscriminator, message.callReference.length>>
        \o buildCallRef(IF message.callReference.flag
                        THEN BitOr128(message.callReference.value)
                        ELSE message.callReference.value,
                        message.callReference.length)
        \o <<message.messageType>>
        \o buildIEs(message.informationElements)

(***************************************************************************)
(* ProtocolTranslator                                                      *)
(* A Map is a function on its keys.  A string the translator takes apart   *)
(* (a From or To header) is a sequence of characters.  The method of a     *)
(* SIPMessage is kept as its parts: a request has code 0, the response     *)
(* `${sipCode} ${phrase}` has method "status".  An absent optional field   *)
(* is the empty string, the empty sequence or 0.                           *)
(***************************************************************************)
\* new Map([[k, v], ...])
MapOf(pairs) == [k \in {p[1] : p \in pairs} |-> (CHOOSE p \in pairs : p[1] = k)[2]]

\* causeCodeMapping of setupITUToSIPCauseCodes
ITUCauseCodes ==
    MapOf({<<16, 200>>, <<17, 486>>, <<18, 408>>, <<19, 480>>, <<20, 480>>, <<21, 603>>,
           <<22, 410>>, <<23, 410>>, <<1, 404>>, <<2, 404>>, <<3, 404>>, <<27, 502>>,
           <<28, 484>>, <<29, 501>>, <<31, 500>>, <<34, 503>>, <<38, 503>>, <<41, 503>>,
           <<42, 503>>, <<43, 503>>, <<44, 503>>, <<47, 503>>, <<50, 501>>, <<57, 403>>,
           <<58, 488>>, <<63, 500>>, <<65, 501>>, <<66, 415>>, <<69, 501>>, <<70, 501>>,
           <<79, 501>>, <<81, 400>>, <<82, 481>>, <<83, 481>>, <<84, 481>>, <<85, 481>>,
           <<86, 481>>, <<87, 403>>, <<88, 488>>, <<90, 400>>, <<91, 502>>, <<95, 400>>,
           <<96, 400>>, <<97, 501>>, <<98, 400>>, <<99, 400>>, <<100, 400>>, <<101, 400>>,
           <<102, 504>>, <<103, 500>>, <<110, 400>>, <<111, 500>>, <<127, 500>>})

\* causeCodeMapping of setupANSIToSIPCauseCodes
ANSICauseCodes ==
    MapOf({<<0, 200>>, <<1, 404>>, <<2, 502>>, <<3, 502>>, <<4, 503>>, <<5, 503>>,
           <<6, 503>>, <<7, 503>>, <<8, 403>>, <<9, 500>>, <<10, 503>>, <<11, 400>>,
           <<12, 400>>, <<13, 503>>, <<14, 503>>, <<15, 403>>, <<16, 404>>, <<17, 400>>,
           <<18, 504>>, <<19, 500>>})

\* causeCodeMapping of setupETSIToSIPCauseCodes
ETSICauseCodes ==
    MapOf({<<1, 404>>, <<16, 200>>, <<17, 486>>, <<18, 408>>, <<19, 480>>, <<21, 603>>,
           <<22, 301>>, <<26, 486>>, <<27, 502>>, <<28, 484>>, <<29, 501>>, <<30, 183>>,
           <<31, 500>>, <<34, 503>>, <<38, 503>>, <<39, 503>>, <<40, 503>>, <<41, 503>>,
           <<42, 503>>, <<43, 503>>, <<44, 503>>, <<46, 503>>, <<47, 503>>})

\* translationRules: `${variant}-to-sip` -> causeCodeMapping
translationRules == [itu |-> ITUCauseCodes, ansi |-> ANSICauseCodes, etsi |-> ETSICauseCodes]

\* the lookup defaulting to 503
sipCodeOfOr503(rules, cause) == IF cause \in DOMAIN rules THEN rules[cause] ELSE 503

\* rules.causeCodeMapping.get(cause) || 500
sipCodeOf(rules, cause) == IF cause \in DOMAIN rules THEN rules[cause] ELSE 500

\* ProtocolTranslator.getSIPReasonPhrase
getSIPReasonPhrase(statusCode) ==
    CASE statusCode = 200 -> "OK"
      [] statusCode = 400 -> "Bad Request"
      [] statusCode = 403 -> "Forbidden"
      [] statusCode = 404 -> "Not Found"
      [] statusCode = 408 -> "Request Timeout"
      [] statusCode = 480 -> "Temporarily Unavailable"
      [] statusCode = 486 -> "Busy Here"
      [] statusCode = 500 -> "Server Internal Error"
      [] statusCode = 501 -> "Not Implemented"
      [] statusCode = 502 -> "Bad Gateway"
      [] statusCode = 503 -> "Service Unavailable"
      [] statusCode = 504 -> "Server Timeout"
      [] OTHER -> "Unknown"

\* ProtocolTranslator.getQ850ReasonText
getQ850ReasonText(cause) ==
    CASE cause = 1  -> "Unallocated number"
      [] cause = 16 -> "Normal call clearing"
      [] cause = 17 -> "User busy"
      [] cause = 18 -> "No user responding"
      [] cause = 19 -> "No answer from user"
      [] cause = 21 -> "Call rejected"
      [] cause = 22 -> "Number changed"
      [] cause = 27 -> "Destination out of order"
      [] cause = 28 -> "Invalid number format"
      [] cause = 31 -> "Normal, unspecified"
      [] cause = 34 -> "No circuit/channel available"
      [] cause = 38 -> "Network out of order"
      [] cause = 41 -> "Temporary failure"
      [] cause = 42 -> "Switching equipment congestion"
      [] OTHER -> "Unknown"

\* a SIPMessage: the parts of its method, its CSeq, From, To and Reason
\* headers (Reason as the cause and the text it carries)
SIPOut(method, code, phrase, cseq, from, to, reasonCause, reasonText) ==
    [method |-> method, code |-> code, phrase |-> phrase, cseq |-> cseq,
     reasonCause |-> reasonCause, reasonText |-> reasonText, From |-> from, To |-> to]

\* a PRIMessage
PRIMessage(messageType, callingNumber, calledNumber, bearerCapability, cause) ==
    [messageType |-> messageType, cause |-> cause, callingNumber |-> callingNumber,
     calledNumber |-> calledNumber, bearerCapability |-> bearerCapability]

\* the characters of `<sip:${number}@localhost>`
sipAddress(number) ==
    <<"<", "s", "i", "p", ":">> \o number
        \o <<"@", "l", "o", "c", "a", "l", "h", "o", "s", "t", ">">>

\* ProtocolTranslator.translateSetupToInvite; the tag is a random string of
\* letters and digits
translateSetupToInvite(priMessage) ==
    SIPOut("INVITE", 0, "", "1 INVITE",
           sipAddress(priMessage.callingNumber) \o <<";", "t", "a", "g", "=", "k", "7">>,
           sipAddress(priMessage.calledNumber), 0, "")

\* ProtocolTranslator.translateDisconnectToBye; `priMessage.cause || 16`
\* takes 16 for an absent cause and for cause 0
translateDisconnectToBye(priMessage, rules) ==
    Bind(IF priMessage.cause = 0 THEN 16 ELSE priMessage.cause, LAMBDA cause :
    Bind(sipCodeOf(rules, cause), LAMBDA sipCode :
        IF sipCode = 200
        THEN SIPOut("BYE", 0, "", "2 BYE", <<>>, <<>>, 0, "")
        ELSE SIPOut("status", sipCode, getSIPReasonPhrase(sipCode), "1 INVITE",
                    <<>>, <<>>, 0, "")))

\* ProtocolTranslator.translatePRIToSIP
translatePRIToSIP(priMessage, variant) ==
    IF variant \notin DOMAIN translationRules
    THEN Raised("No translation rules found for variant")
    ELSE CASE priMessage.messageType = "setup" ->
                Returned(translateSetupToInvite(priMessage))
           [] priMessage.messageType = "call_proceeding" ->
                Returned(SIPOut("status", 100, "Trying", "1 INVITE", <<>>, <<>>, 0, ""))
           [] priMessage.messageType = "alerting" ->
                Returned(SIPOut("status", 180, "Ringing", "1 INVITE", <<>>, <<>>, 0, ""))
           [] priMessage.messageType = "connect" ->
                Returned(SIPOut("status", 200, "OK", "1 INVITE", <<>>, <<>>, 0, ""))
           [] priMessage.messageType \in {"disconnect", "release"} ->
                Returned(translateDisconnectToBye(priMessage, translationRules[variant]))
           [] OTHER -> Raised("Unsupported PRI message type")

\* ProtocolTranslator.parseISUPCause: the parameters are not read
parseISUPCause(parameters) == 16

\* ProtocolTranslator.translateRELToBye
translateRELToBye(isupMessage, rules) ==
    Bind(parseISUPCause(isupMessage.parameters), LAMBDA cause :
        SIPOut("BYE", 0, "", "2 BYE", <<>>, <<>>, cause, getQ850ReasonText(cause)))

\* ProtocolTranslator.translateISUPToSIPT
translateISUPToSIPT(isupMessage, variant) ==
    IF variant \notin DOMAIN translationRules
    THEN Raised("No translation rules found for variant")
    ELSE CASE isupMessage.messageType = 1 ->
                Returned(SIPOut("INVITE", 0, "", "1 INVITE",
                                sipAddress(<<"1", "2", "3", "4", "5", "6", "7", "8", "9", "0">>)
                                    \o <<";", "t", "a", "g", "=", "k", "7">>,
                                sipAddress(<<"0", "9", "8", "7", "6", "5", "4", "3", "2", "1">>),
                                0, ""))
           [] isupMessage.messageType = 6 ->
                Returned(SIPOut("status", 183, "Session Progress", "1 INVITE", <<>>, <<>>, 0, ""))
           [] isupMessage.messageType = 9 ->
                Returned(SIPOut("status", 200, "OK", "1 INVITE", <<>>, <<>>, 0, ""))
           [] isupMessage.messageType = 12 ->
                Returned(translateRELToBye(isupMessage, translationRules[variant]))
           [] OTHER -> Raised("Unsupported ISUP message type")

RECURSIVE captureNumber(_, _)
\* the group ([^@;]+) of the pattern, matched from position i on
captureNumber(header, i) ==
    IF i > Len(header) \/ header[i] \in {"@", ";"} THEN <<>>
    ELSE <<header[i]>> \o captureNumber(header, i + 1)

RECURSIVE matchSipFrom(_, _)
\* header.match(/sip:([^@;]+)/) tried at position i and then further right:
\* the captured group, or <<>> for no match
matchSipFrom(header, i) ==
    IF i + 3 > Len(header) THEN <<>>
    ELSE IF SubSeq(header, i, i + 3) = <<"s", "i", "p", ":">>
            /\ captureNumber(header, i + 4) # <<>>
    THEN captureNumber(header, i + 4)
    ELSE matchSipFrom(header, i + 1)

\* ProtocolTranslator.extractNumberFromSIPHeader: match ? match[1] : ''
extractNumberFromSIPHeader(header) == matchSipFrom(header, 1)

\* ProtocolTranslator.translateInviteToSetup
translateInviteToSetup(sipMessage) ==
    PRIMessage("setup", extractNumberFromSIPHeader(sipMessage.From),
               extractNumberFromSIPHeader(sipMessage.To), "speech", 0)

\* sipToCauseMap of extractSIPCauseCode
sipToCauseMap ==
    MapOf({<<200, 16>>, <<400, 95>>, <<401, 57>>, <<403, 57>>, <<404, 1>>, <<408, 18>>,
           <<410, 22>>, <<415, 66>>, <<480, 19>>, <<481, 82>>, <<486, 17>>, <<488, 88>>,
           <<500, 31>>, <<501, 79>>, <<502, 38>>, <<503, 34>>, <<504, 102>>})

\* ProtocolTranslator.extractSIPCauseCode; the status code is what parseInt
\* reads before the first space of the method
extractSIPCauseCode(sipMessage) ==
    IF sipMessage.method = "BYE" THEN 16
    ELSE IF sipMessage.code \in DOMAIN sipToCauseMap THEN sipToCauseMap[sipMessage.code]
    ELSE 31

\* ProtocolTranslator.translateByeToDisconnect
translateByeToDisconnect(sipMessage) ==
    PRIMessage("disconnect", <<>>, <<>>, "", extractSIPCauseCode(sipMessage))

\* ProtocolTranslator.translateSIPToPRI; the patterns /^1\d{2}$/, /^180$/,
\* /^200$/ and /^[4-6]\d{2}$/ are tried in this order and match a method
\* that is a bare status code (phrase ""), never `${code} ${phrase}`
translateSIPToPRI(sipMessage) ==
    IF sipMessage.method = "INVITE"
    THEN Returned(translateInviteToSetup(sipMessage))
    ELSE IF sipMessage.method = "status" /\ sipMessage.phrase = ""
                /\ sipMessage.code \in 100..199
    THEN Returned(PRIMessage("call_proceeding", <<>>, <<>>, "", 0))
    ELSE IF sipMessage.method = "status" /\ sipMessage.phrase = ""
                /\ sipMessage.code = 180
    THEN Returned(PRIMessage("alerting", <<>>, <<>>, "", 0))
    ELSE IF sipMessage.method = "status" /\ sipMessage.phrase = ""
                /\ sipMessage.code = 200
    THEN Returned(PRIMessage("connect", <<>>, <<>>, "", 0))
    ELSE IF sipMessage.method = "BYE"
                \/ (sipMessage.method = "status" /\ sipMessage.phrase = ""
                        /\ sipMessage.code \in 400..699)
    THEN Returned(translateByeToDisconnect(sipMessage))
    ELSE Raised("Unsupported SIP message")

(***************************************************************************)
(* LAPD frames                                                             *)
(* type: "I", "S" or "U"; sub: the supervisory or unnumbered kind ("I" for *)
(* an I-frame); ns, nr: -1 where the frame kind has none; info: the        *)
(* information field: "none" (absent), "short" (fewer than 3 octets, which *)
(* parseQ931Message rejects) or "msg" (a well-formed Q.931 message).       *)
(***************************************************************************)
Frame(type, sub, ns, nr, pf, info) ==
    [type |-> type, sub |-> sub, ns |-> ns, nr |-> nr, pf |-> pf, info |-> info]

\* DChannelHandler.createInformationFrame
createInformationFrame(h, info) == Frame("I", "I", h.vs, h.vr, FALSE, info)

\* DChannelHandler.createSupervisoryFrame
createSupervisoryFrame(h, kind, pf) == Frame("S", kind, -1, h.vr, pf, "none")

\* DChannelHandler.createUnnumberedFrame
createUnnumberedFrame(kind, pf) == Frame("U", kind, -1, -1, pf, "none")

\* a Q.931 SETUP without information elements, call reference 1
SetupOctets == <<8, 1, 1, 5>>

\* the octets of an information field of each kind
InfoOctets(info) ==
    CASE info = "msg"   -> SetupOctets
      [] info = "short" -> <<8, 1>>
      [] OTHER          -> <<>>

\* the LAPDFrame object the create...Frame methods return: the frame with
\* the address of the handler (config.sapi = 0, config.tei = 0) and fcs 0
wireFrame(frame) ==
    LAPDFrame(0, TRUE, FALSE, 0, TRUE, frame.type, frame.sub, frame.ns, frame.nr,
              frame.pf, frame.info # "none", InfoOctets(frame.info), 0)

(***************************************************************************)
(* DChannelHandler                                                         *)
(* A handler is a record of its private fields; `loop` is the position of  *)
(* handleT200Timeout inside its `for (const frame of acknowledgePending)`  *)
(* loop (0: the handler is not running).                                   *)
(* The result of an operation is [h, out, ev, thrown].                     *)
(***************************************************************************)
NewHandler(mode, primary) ==
    [ mode |-> mode, primaryInterface |-> primary,
      state |-> "down", isRunning |-> FALSE,
      vs |-> 0, vr |-> 0, va |-> 0,
      retransmissionCount |-> 0, peerBusy |-> FALSE,
      t200 |-> FALSE, t203 |-> FALSE,
      acknowledgePending |-> <<>>,
      loop |-> 0 ]

Res(h, out, ev) == [h |-> h, out |-> out, ev |-> ev, thrown |-> "none"]
Thrown(h, what) == [h |-> h, out |-> <<>>, ev |-> <<>>, thrown |-> what]

isEstablished(h) == h.state \in {"established", "multiple_frame_established"}

\* sendFrame with a buildLAPDFrame that returns the octets of every frame
sendFrameBuilt(h, frame) ==
    IF frame.type = "I" \/ (frame.type = "U" /\ frame.sub = "SABME")
    THEN Res([h EXCEPT !.acknowledgePending = Append(@, frame), !.t200 = TRUE],
             <<frame>>, <<>>)
    ELSE Res(h, <<frame>>, <<>>)

\* DChannelHandler.sendFrame: the frame is built first, and what
\* buildLAPDFrame throws rejects the promise sendFrame returns; otherwise the
\* frame is emitted, and I-frames and SABME are pushed on acknowledgePending
\* and T200 is (re)started
sendFrame(h, frame) ==
    IF buildLAPDFrame(wireFrame(frame)).thrown # "none"
    THEN Thrown(h, "RangeError")
    ELSE IF frame.type = "I" \/ (frame.type = "U" /\ frame.sub = "SABME")
        THEN Res([h EXCEPT !.acknowledgePending = Append(@, frame), !.t200 = TRUE],
                 <<frame>>, <<>>)
        ELSE Res(h, <<frame>>, <<>>)

\* a call of sendFrame that is not awaited: the caller runs on whether the
\* promise is fulfilled or rejected
unawaited(r) == [r EXCEPT !.thrown = "none"]

\* DChannelHandler.establishFAS / establishAsPrimary: sendFrame is awaited,
\* a rejection skips the rest
establishWithSABME(h) ==
    Bind(sendFrame(h, createUnnumberedFrame("SABME", TRUE)), LAMBDA r :
        IF r.thrown # "none" THEN r
        ELSE [r EXCEPT !.h = [r.h EXCEPT !.t200 = TRUE, !.state = "awaiting_establishment"]])

\* DChannelHandler.establishNFAS
establishNFAS(h) ==
    IF h.primaryInterface
    THEN establishWithSABME(h)
    ELSE Res([h EXCEPT !.state = "awaiting_establishment", !.t203 = TRUE], <<>>, <<>>)

\* DChannelHandler.start
start(h) ==
    IF h.isRunning THEN Thrown(h, "D-Channel already running")
    ELSE LET h1 == [h EXCEPT !.isRunning = TRUE, !.state = "establishing"]
         IN  Bind(IF h1.mode = "fas" THEN establishWithSABME(h1) ELSE establishNFAS(h1),
                  LAMBDA r : IF r.thrown # "none" THEN r
                             ELSE [r EXCEPT !.ev = r.ev \o <<"started">>])

\* DChannelHandler.stop (clearAllTimers included)
stop(h) ==
    IF ~h.isRunning THEN Res(h, <<>>, <<>>)
    ELSE Res([h EXCEPT !.t200 = FALSE, !.t203 = FALSE,
                       !.state = "down", !.isRunning = FALSE],
             <<>>, <<"stopped">>)

\* DChannelHandler.updateAcknowledgmentState
updateAcknowledgmentState(h, nr) ==
    LET kept == SelectSeqBy(h.acknowledgePending,
                    {f \in Range(h.acknowledgePending) : ~(f.type = "I" /\ f.ns < nr)})
    IN  [h EXCEPT !.acknowledgePending = kept,
                  !.va = nr,
                  !.t200 = IF kept = <<>> THEN FALSE ELSE @]

\* DChannelHandler.processQ931Message: a payload that parses is emitted
processQ931Message(info) ==
    IF info = "msg" THEN <<"q931Message">> ELSE <<>>

\* DChannelHandler.processInformationFrame
processInformationFrame(h, frame) ==
    IF ~isEstablished(h) THEN Res(h, <<>>, <<>>)
    ELSE IF frame.ns # h.vr
    THEN unawaited(sendFrame(h, createSupervisoryFrame(h, "REJ", FALSE)))
    ELSE LET h1 == [h EXCEPT !.vr = (h.vr + 1) % Modulus]
             ev == IF frame.info # "none" THEN processQ931Message(frame.info) ELSE <<>>
         IN  Bind(unawaited(sendFrame(h1, createSupervisoryFrame(h1, "RR", FALSE))),
                  LAMBDA r : Res(updateAcknowledgmentState(r.h, frame.nr), r.out, ev))

\* DChannelHandler.processSupervisoryFrame (RR, RNR, REJ; SREJ is ignored)
processSupervisoryFrame(h, frame) ==
    CASE frame.sub = "RR"  ->
           Res(updateAcknowledgmentState([h EXCEPT !.peerBusy = FALSE], frame.nr), <<>>, <<>>)
      [] frame.sub = "RNR" ->
           Res(updateAcknowledgmentState([h EXCEPT !.peerBusy = TRUE], frame.nr), <<>>, <<>>)
      [] frame.sub = "REJ" ->
           Res([updateAcknowledgmentState([h EXCEPT !.peerBusy = FALSE], frame.nr)
                    EXCEPT !.vs = frame.nr], <<>>, <<>>)
      [] OTHER -> Res(h, <<>>, <<>>)

\* DChannelHandler.processUnnumberedSABME
processUnnumberedSABME(h) ==
    Bind(unawaited(sendFrame([h EXCEPT !.vs = 0, !.vr = 0, !.va = 0],
                             createUnnumberedFrame("UA", FALSE))),
         LAMBDA r : Res([r.h EXCEPT !.state = "established"], r.out, <<"established">>))

\* DChannelHandler.processUnnumberedUA
processUnnumberedUA(h) ==
    IF h.state = "awaiting_establishment"
    THEN Res([h EXCEPT !.t200 = FALSE, !.state = "established", !.t203 = TRUE],
             <<>>, <<"established">>)
    ELSE Res(h, <<>>, <<>>)

\* DChannelHandler.processUnnumberedDISC
processUnnumberedDISC(h) ==
    Bind(unawaited(sendFrame(h, createUnnumberedFrame("UA", FALSE))),
         LAMBDA r : Res([r.h EXCEPT !.state = "down"], r.out, <<"disconnected">>))

\* DChannelHandler.processUnnumberedDM
processUnnumberedDM(h) == Res([h EXCEPT !.state = "down"], <<>>, <<"disconnected">>)

\* DChannelHandler.processUnnumberedFRMR
processUnnumberedFRMR(h) == Res([h EXCEPT !.state = "down"], <<>>, <<"error">>)

\* DChannelHandler.processUnnumberedFrame
processUnnumberedFrame(h, frame) ==
    CASE frame.sub = "SABME" -> processUnnumberedSABME(h)
      [] frame.sub = "UA"    -> processUnnumberedUA(h)
      [] frame.sub = "DM"    -> processUnnumberedDM(h)
      [] frame.sub = "DISC"  -> processUnnumberedDISC(h)
      [] frame.sub = "FRMR"  -> processUnnumberedFRMR(h)
      [] frame.sub = "UI"    -> Res(h, <<>>, IF frame.info # "none" THEN <<"uiFrame">> ELSE <<>>)
      [] frame.sub = "XID"   -> Res(h, <<>>, <<"xidFrame">>)
      [] OTHER -> Res(h, <<>>, <<>>)

\* DChannelHandler.processReceivedFrame; addrOK: validateFrameAddress(frame)
processReceivedFrame(h, frame, addrOK) ==
    IF ~h.isRunning THEN Res(h, <<>>, <<>>)
    ELSE IF ~addrOK THEN Res(h, <<>>, <<>>)
    ELSE Bind(CASE frame.type = "I" -> processInformationFrame(h, frame)
                [] frame.type = "S" -> processSupervisoryFrame(h, frame)
                [] OTHER            -> processUnnumberedFrame(h, frame),
              LAMBDA r : [r EXCEPT !.h = [r.h EXCEPT !.t203 = TRUE]])

\* DChannelHandler.validateFrameAddress (config.sapi = 0, config.tei = 0)
validateFrameAddress(frame) == frame.sapi = 0 /\ frame.tei = 0

\* what the engine reads of the LAPDFrame parseLAPDFrame returns: the
\* control field and the kind of its information field
engineFrame(frame) ==
    Frame(frame.type, frame.sub, frame.ns, frame.nr, frame.pf,
          IF ~frame.hasInfo THEN "none"
          ELSE IF frame.information = InfoOctets("msg") THEN "msg" ELSE "short")

\* DChannelHandler.processReceivedFrame from the octets received: what
\* parseLAPDFrame throws is caught and logged
processReceivedFrameData(h, data) ==
    IF ~h.isRunning THEN Res(h, <<>>, <<>>)
    ELSE Bind(parseLAPDFrame(data), LAMBDA p :
            IF p.thrown # "none" THEN Res(h, <<>>, <<>>)
            ELSE processReceivedFrame(h, engineFrame(p.value),
                                      validateFrameAddress(p.value)))

\* sendQ931Message emitting the I-frame itself, whatever the window
sendQ931MessageEmits(h, info) ==
    IF ~isEstablished(h) THEN Thrown(h, "D-Channel not established")
    ELSE Res(h, <<createInformationFrame(h, info)>>, <<>>)

\* DChannelHandler.sendQ931Message
sendQ931Message(h, info) ==
    IF ~isEstablished(h) THEN Thrown(h, "D-Channel not established")
    ELSE sendFrame(h, createInformationFrame(h, info))

\* DChannelHandler.handleT203Timeout (the timer has fired and is restarted)
handleT203Timeout(h) ==
    Bind(unawaited(sendFrame(h, createSupervisoryFrame(h, "RR", TRUE))),
         LAMBDA r : [r EXCEPT !.h = [r.h EXCEPT !.t203 = TRUE]])

\* DChannelHandler.handleT200Timeout up to the first iteration of its loop:
\* the timer has fired; with the retries exhausted the link goes down, with
\* nothing pending the handler completes, otherwise it enters the loop
handleT200Timeout(h) ==
    LET h0 == [h EXCEPT !.t200 = FALSE]
    IN  IF h0.retransmissionCount >= N200
        THEN Res([h0 EXCEPT !.state = "down"], <<>>, <<"error">>)
        ELSE IF h0.acknowledgePending = <<>>
        THEN Res([h0 EXCEPT !.retransmissionCount = @ + 1, !.t200 = TRUE], <<>>, <<>>)
        ELSE Res([h0 EXCEPT !.loop = 1], <<>>, <<>>)

\* one iteration of `for (const frame of this.acknowledgePending)
\* this.sendFrame(frame)`: the array iterator reads the current length, so
\* the frames sendFrame pushes are iterated too; after the last element the
\* retry counter is incremented and T200 restarted
t200LoopIteration(h) ==
    Bind(unawaited(sendFrame(h, h.acknowledgePending[h.loop])), LAMBDA r :
        IF h.loop + 1 <= Len(r.h.acknowledgePending)
        THEN [r EXCEPT !.h = [r.h EXCEPT !.loop = h.loop + 1]]
        ELSE [r EXCEPT !.h = [r.h EXCEPT !.loop = 0,
                                         !.retransmissionCount = @ + 1,
                                         !.t200 = TRUE]])

(***************************************************************************)
(* Inputs of the LAPD engine                                               *)
(***************************************************************************)
\* the sequence numbers received frames carry: the first two and the last
SeqIn == {0, 1, Modulus - 1}

InfoKinds == {"none", "short", "msg"}

IFramesIn == {Frame("I", "I", ns, nr, FALSE, info) :
                 ns \in SeqIn, nr \in {0, 1}, info \in InfoKinds}

SFramesIn == {Frame("S", kind, -1, nr, FALSE, "none") :
                 kind \in {"RR", "RNR", "REJ", "SREJ"}, nr \in SeqIn}

UFramesIn == {Frame("U", kind, -1, -1, TRUE, "none") :
                 kind \in {"SABME", "UA", "DM", "DISC", "FRMR", "UI", "XID"}}

RxFrames == IFramesIn \cup SFramesIn \cup UFramesIn

NoFrame == Frame("-", "-", -1, -1, FALSE, "none")

\* what the last step did: the operation, the kind and N(S) of the frame it
\* was given ("-" and -1 when it takes none) and the exception it threw
\* ("none" when it returned)
Op(name, frame, thrown) ==
    [op |-> name, kind |-> frame.sub, ns |-> frame.ns, thrown |-> thrown]

(***************************************************************************)
(* The stand-alone LAPD engine (FAS, or an NFAS member driven directly)    *)
(* T200 is armed by sendFrame after the frame was built, and by the        *)
(* establish methods after sendFrame was awaited: buildLAPDFrame throws    *)
(* for every frame, so the timer never runs and handleT200Timeout has no   *)
(* action.                                                                 *)
(***************************************************************************)
InitLAPD ==
    /\ dch \in {NewHandler("fas", FALSE), NewHandler("nfas", FALSE)}
    /\ dchOut = <<>>
    /\ dchEv = <<>>
    /\ dchOp = Op("new", NoFrame, "none")

\* the handler takes the result r of operation `name`
DchApply(name, frame, r) ==
    /\ dch' = r.h
    /\ dchOut' = r.out
    /\ dchEv' = r.ev
    /\ dchOp' = Op(name, frame, r.thrown)
    /\ UNCHANGED <<nfasVars, isupVars, sipVars, codecVars, fgVars>>

DchStart == DchApply("start", NoFrame, start(dch))

DchStop == DchApply("stop", NoFrame, stop(dch))

\* processReceivedFrame with a frame as parseLAPDFrame returns it
DchReceive ==
    \E frame \in RxFrames :
        DchApply("receive", frame, processReceivedFrame(dch, frame, TRUE))

\* a frame whose SAPI or TEI is not the handler's
DchReceiveBadAddress ==
    \E frame \in {f \in UFramesIn : f.sub \in {"SABME", "UA"}} :
        DchApply("receiveBadAddress", NoFrame, processReceivedFrame(dch, frame, FALSE))

\* frames received as octets
RxOctetFrames ==
    {Frame("U", kind, -1, -1, TRUE, "none") : kind \in {"SABME", "DISC"}}
    \cup {Frame("I", "I", ns, 0, FALSE, "msg") : ns \in {0, 1}}
    \cup {Frame("S", "RR", -1, nr, FALSE, "none") : nr \in {0, 1}}

\* processReceivedFrame with the octets of a frame, whose FCS is the CRC of
\* the octets before it (receiveOctets) or differs from it (receiveBadFCS)
DchReceiveOctets ==
    \E frame \in RxOctetFrames, bad \in BOOLEAN :
        Bind(frameBody(wireFrame(frame)), LAMBDA body :
        Bind(calculateFCS(body), LAMBDA fcs :
            DchApply(IF bad THEN "receiveBadFCS" ELSE "receiveOctets", frame,
                     processReceivedFrameData(dch,
                         withFCS(body, IF bad THEN (fcs + 1) % 65536 ELSE fcs)))))

DchSendQ931 == DchApply("sendQ931Message", NoFrame, sendQ931Message(dch, "msg"))

DchT203 ==
    /\ dch.t203
    /\ DchApply("T203", NoFrame, handleT203Timeout([dch EXCEPT !.t203 = FALSE]))

NextLAPD ==
    \/ DchStart
    \/ DchStop
    \/ DchReceive
    \/ DchReceiveBadAddress
    \/ DchReceiveOctets
    \/ DchSendQ931
    \/ DchT203

(***************************************************************************)
(* NFASManager with one group {spans: [1,2,3], primary: 1}                 *)
(* The manager state is M = [grp, spans, stats, out, ev]: the group, its   *)
(* handlers, its statistics, and the frames and events of the current call.*)
(***************************************************************************)
\* [primarySpan, ...backupSpans] of the group
SpanOrder == <<1, 2, 3>>

PrimarySpan == Head(SpanOrder)

SpanIds == Range(SpanOrder)

Ev(name, span, from, to) == [name |-> name, span |-> span, from |-> from, to |-> to]

NoGroup == [state |-> "absent", activeSpan |-> 0]

ZeroStats ==
    [activeSpan |-> 0, switchoverCount |-> 0, heartbeatsSent |-> 0,
     heartbeatsLost |-> 0, callsHandled |-> 0]

NewSpans == [s \in SpanIds |-> NewHandler("nfas", s = PrimarySpan)]

Mgr(g, sp, st, out, ev) == [grp |-> g, spans |-> sp, stats |-> st, out |-> out, ev |-> ev]

\* the candidates of NFASManager.performSwitchover: [primary, ...backups]
\* without the handlers that are down and without the active span
availableSpans(M) ==
    SelectSeqBy(SpanOrder,
                {s \in SpanIds : M.spans[s].state # "down" /\ s # M.grp.activeSpan})

RECURSIVE trySpans(_, _)
\* an iteration of the loop of performSwitchover from the continuation of
\* `await currentHandler.stop()` on
afterStop(M, cands) ==
    LET s == Head(cands)
    IN  Bind(IF isEstablished(M.spans[s]) THEN Res(M.spans[s], <<>>, <<>>)
             ELSE start(M.spans[s]), LAMBDA r :
        Bind([M EXCEPT !.spans[s] = r.h, !.out = @ \o r.out], LAMBDA M1 :
            IF r.thrown # "none"
            THEN trySpans(M1, Tail(cands))
            ELSE [M1 EXCEPT !.grp = [state |-> "active", activeSpan |-> s],
                            !.stats.switchoverCount = @ + 1,
                            !.stats.activeSpan = s,
                            \* previousSpan is read after activeSpan was assigned
                            !.ev = @ \o <<Ev("switchoverCompleted", 0, s, s)>>]))

\* the loop `for (const spanId of availableSpans)` of performSwitchover
trySpans(M, cands) ==
    IF cands = <<>>
    THEN [M EXCEPT !.grp.state = "inactive",
                   !.ev = @ \o <<Ev("groupInactive:switchover_failed", 0, 0, 0)>>]
    ELSE afterStop([M EXCEPT !.spans[M.grp.activeSpan] = stop(@).h], cands)

\* performSwitchover completing on the span that is already active
performSwitchoverInPlace(M) ==
    [M EXCEPT !.grp.state = "active",
              !.stats.switchoverCount = @ + 1,
              !.ev = @ \o <<Ev("switchoverCompleted", 0, M.grp.activeSpan, M.grp.activeSpan)>>]

\* NFASManager.performSwitchover
performSwitchover(M) ==
    LET M1 == [M EXCEPT !.grp.state = "switching"]
        av == availableSpans(M1)
    IN  IF av = <<>>
        THEN [M1 EXCEPT !.grp.state = "inactive",
                        !.ev = @ \o <<Ev("groupInactive:no_backup_available", 0, 0, 0)>>]
        ELSE trySpans(M1, av)

\* NFASManager.handleDChannelEstablished
handleDChannelEstablished(M, span) ==
    IF M.spans[span].primaryInterface /\ M.grp.state # "active"
    THEN [M EXCEPT !.grp = [state |-> "active", activeSpan |-> span],
                   !.ev = @ \o <<Ev("groupActivated", 0, 0, span)>>]
    ELSE M

\* handleDChannelDisconnected / handleDChannelError without the switchover
handleDChannelDownIgnored(M, span) == M

\* NFASManager.handleDChannelDisconnected / handleDChannelError
handleDChannelDown(M, span) ==
    IF span = M.grp.activeSpan THEN performSwitchover(M) ELSE M

\* NFASManager.handleQ931Message
handleQ931Message(M, span) ==
    IF span # M.grp.activeSpan THEN M
    ELSE [M EXCEPT !.stats.callsHandled = @ + 1,
                   !.ev = @ \o <<Ev("q931Message", 0, 0, span)>>]

RECURSIVE dispatch(_, _, _)
\* the listeners setupDChannelEventHandlers registers, run for the events
\* `names` of the handler of `span` in the order the handler emitted them
dispatch(M, span, names) ==
    IF names = <<>> THEN M
    ELSE LET n  == Head(names)
             M0 == [M EXCEPT !.ev = @ \o <<Ev(n, span, 0, 0)>>]
         IN  dispatch(CASE n = "established"  -> handleDChannelEstablished(M0, span)
                        [] n = "disconnected" -> handleDChannelDown(M0, span)
                        [] n = "error"        -> handleDChannelDown(M0, span)
                        [] n = "q931Message"  -> handleQ931Message(M0, span)
                        [] OTHER              -> M0,
                      span, Tail(names))

\* the handler of `span` has run an operation with result r: its state is
\* stored, its frames are re-emitted by the manager, its events dispatched
engineStep(M, span, r) ==
    dispatch([M EXCEPT !.spans[span] = r.h, !.out = @ \o r.out], span, r.ev)

\* NFASManager.initializeGroup (called by start)
initializeGroup ==
    Bind(start(NewSpans[PrimarySpan]), LAMBDA r :
    Bind(Mgr([state |-> "inactive", activeSpan |-> PrimarySpan],
             [NewSpans EXCEPT ![PrimarySpan] = r.h],
             [ZeroStats EXCEPT !.activeSpan = PrimarySpan], r.out, <<>>), LAMBDA M0 :
        IF r.thrown = "none"
        THEN [M0 EXCEPT !.grp.state = "active"]
        ELSE performSwitchover(M0)))

\* NFASManager.forceSwitchover with a target span
forceSwitchoverTo(M, target) ==
    performSwitchover([M EXCEPT !.grp.activeSpan = target])

\* NFASManager.sendHeartbeats
sendHeartbeats(M) ==
    LET a == M.grp.activeSpan
    IN  IF M.grp.state # "active" THEN M
        ELSE IF ~isEstablished(M.spans[a]) THEN M
        ELSE LET r == sendQ931Message(M.spans[a], "msg")
             IN  [engineStep(M, a, r) EXCEPT !.stats.heartbeatsSent = @ + 1]

(***************************************************************************)
(* Actions of the NFAS manager                                             *)
(***************************************************************************)
\* frames the peer sends on a span of the group
NfasFramesIn ==
    {Frame("U", kind, -1, -1, TRUE, "none") : kind \in {"SABME", "UA", "DM", "DISC", "FRMR"}}
    \cup {Frame("I", "I", ns, 0, FALSE, "msg") : ns \in {0, 1}}
    \cup {Frame("S", "RR", -1, nr, FALSE, "none") : nr \in {0, 1}}

NOp(name, span, kind, thrown) == [op |-> name, span |-> span, kind |-> kind, thrown |-> thrown]

InitNFAS ==
    /\ spans = NewSpans
    /\ grp = NoGroup
    /\ stats = ZeroStats
    /\ mgrRunning = FALSE
    /\ nfasOut = <<>>
    /\ nfasEv = <<>>
    /\ nfasOp = NOp("new", 0, "-", "none")
    /\ switchovers = <<>>

CurrentMgr == Mgr(grp, spans, stats, <<>>, <<>>)

\* the manager takes the result M of operation `op`, the suspended calls
\* of performSwitchover being `pending` afterwards
NfasApplyWith(op, M, pending) ==
    /\ grp' = M.grp
    /\ spans' = M.spans
    /\ stats' = M.stats
    /\ nfasOut' = M.out
    /\ nfasEv' = M.ev
    /\ nfasOp' = op
    /\ switchovers' = pending
    /\ UNCHANGED <<lapdVars, isupVars, sipVars, codecVars, fgVars>>

NfasApply(op, M) == NfasApplyWith(op, M, switchovers)


NfasStart ==
    /\ ~mgrRunning
    /\ mgrRunning' = TRUE
    /\ NfasApply(NOp("start", 0, "-", "none"), initializeGroup)

\* NFASManager.stop: every handler is stopped, groups and handlers are cleared
NfasStop ==
    /\ mgrRunning
    /\ switchovers = <<>>
    /\ mgrRunning' = FALSE
    /\ NfasApply(NOp("stop", 0, "-", "none"), Mgr(NoGroup, NewSpans, stats, <<>>, <<>>))

\* NFASManager.processReceivedFrame
NfasReceive ==
    /\ mgrRunning
    /\ switchovers = <<>>
    /\ \E s \in SpanIds, frame \in NfasFramesIn :
         /\ frame.type = "I" => stats.callsHandled < MaxCount
         /\ UNCHANGED mgrRunning
         /\ NfasApply(NOp("receive", s, frame.sub, "none"),
                      engineStep(CurrentMgr, s, processReceivedFrame(spans[s], frame, TRUE)))

\* NFASManager.sendQ931Message
NfasSendQ931 ==
    /\ mgrRunning
    /\ UNCHANGED mgrRunning
    /\ IF grp.state # "active"
       THEN NfasApply(NOp("sendQ931Message", 0, "-", "group is not active"), CurrentMgr)
       ELSE IF ~isEstablished(spans[grp.activeSpan])
       THEN NfasApply(NOp("sendQ931Message", 0, "-", "not established"), CurrentMgr)
       ELSE Bind(sendQ931Message(spans[grp.activeSpan], "msg"), LAMBDA r :
                NfasApply(NOp("sendQ931Message", grp.activeSpan, "-", r.thrown),
                          engineStep(CurrentMgr, grp.activeSpan, r)))

\* the heartbeat interval fires; timers and received frames are not served
\* while a call of performSwitchover is suspended
NfasHeartbeat ==
    /\ mgrRunning
    /\ switchovers = <<>>
    /\ stats.heartbeatsSent < MaxCount
    /\ grp.activeSpan \in SpanIds
    /\ UNCHANGED mgrRunning
    /\ NfasApply(NOp("heartbeat", 0, "-", "none"), sendHeartbeats(CurrentMgr))

\* NFASManager.forceSwitchover; target 0: no target given
NfasForceSwitchover ==
    /\ mgrRunning
    /\ switchovers = <<>>
    /\ stats.switchoverCount < MaxCount
    /\ UNCHANGED mgrRunning
    /\ \E target \in {0} \cup SpanIds \cup {Len(SpanOrder) + 1} :
         IF target # 0 /\ target \notin SpanIds
         THEN NfasApply(NOp("forceSwitchover", target, "-", "span not found"), CurrentMgr)
         ELSE IF target # 0
         THEN NfasApply(NOp("forceSwitchover", target, "-", "none"),
                        forceSwitchoverTo(CurrentMgr, target))
         ELSE NfasApply(NOp("forceSwitchover", 0, "-", "none"), performSwitchover(CurrentMgr))

NfasT203 ==
    /\ mgrRunning
    /\ switchovers = <<>>
    /\ UNCHANGED mgrRunning
    /\ \E s \in SpanIds :
         /\ spans[s].t203
         /\ NfasApply(NOp("T203", s, "-", "none"),
                      engineStep(CurrentMgr, s,
                                 handleT203Timeout([spans[s] EXCEPT !.t203 = FALSE])))

\* NFASManager.forceSwitchover called without awaiting it, also while
\* earlier calls are suspended: performSwitchover runs up to its first await,
\* `await currentHandler.stop()` (the stop() itself has run), or to its
\* `return` when there is no candidate
NfasSwitchoverBegin ==
    /\ mgrRunning
    /\ stats.switchoverCount < MaxCount
    /\ Len(switchovers) < MaxPending
    /\ UNCHANGED mgrRunning
    /\ \E target \in {0} \cup SpanIds :
         Bind([CurrentMgr EXCEPT !.grp.activeSpan = IF target # 0 THEN target ELSE @,
                                 !.grp.state = "switching"], LAMBDA M :
            IF availableSpans(M) = <<>>
            THEN NfasApply(NOp("forceSwitchoverBegin", target, "-", "none"),
                           [M EXCEPT !.grp.state = "inactive",
                                     !.ev = @ \o <<Ev("groupInactive:no_backup_available",
                                                      0, 0, 0)>>])
            ELSE NfasApplyWith(NOp("forceSwitchoverBegin", target, "-", "none"),
                               [M EXCEPT !.spans[M.grp.activeSpan] = stop(@).h],
                               Append(switchovers, availableSpans(M))))

\* the continuation of the oldest suspended performSwitchover
NfasSwitchoverResume ==
    /\ mgrRunning
    /\ switchovers # <<>>
    /\ UNCHANGED mgrRunning
    /\ NfasApplyWith(NOp("forceSwitchoverResume", 0, "-", "none"),
                     afterStop(CurrentMgr, Head(switchovers)), Tail(switchovers))

NextNFAS ==
    \/ NfasStart
    \/ NfasStop
    \/ NfasReceive
    \/ NfasSendQ931
    \/ NfasHeartbeat
    \/ NfasForceSwitchover
    \/ NfasSwitchoverBegin
    \/ NfasSwitchoverResume
    \/ NfasT203

(***************************************************************************)
(* SigtranISUPHandler                                                      *)
(* The handler state is I = [calls, avail, out, ev]; `avail` lists the     *)
(* elements of the Set availableCICs in insertion order, which is the      *)
(* order Array.from(availableCICs) returns them in.                        *)
(***************************************************************************)
\* the CIC range of the pool
CICs == 1..MaxCIC

\* the CICs incoming messages name: the range and one CIC outside it
CICsIn == 1..(MaxCIC + 1)

\* (calling, called) numbers of the calls the gateway originates
OutNumbers == {<<"5551001", "5551002">>}

\* (calling, called) numbers parseIAMParameters finds in an incoming IAM
InNumbers == {<<"5551002", "5551001">>}

\* cause values of REL
Causes == {16, 17}

Call(state, calling, called) ==
    [state |-> state, callingNumber |-> calling, calledNumber |-> called]

Msg(type, cic, cause) == [type |-> type, cic |-> cic, cause |-> cause]

Isup(c, av, out, ev) == [calls |-> c, avail |-> av, out |-> out, ev |-> ev]

\* this.calls.set(cic, call)
setCall(c, cic, call) == [k \in DOMAIN c \cup {cic} |-> IF k = cic THEN call ELSE c[k]]

\* this.calls.delete(cic)
deleteCall(c, cic) == [k \in DOMAIN c \ {cic} |-> c[k]]

\* Set.prototype.add: a new element goes last, a present one keeps its place
addCIC(av, cic) == IF cic \in Range(av) THEN av ELSE Append(av, cic)

\* Set.prototype.delete
removeCIC(av, cic) == SelectSeqBy(av, Range(av) \ {cic})

\* allocateCIC handing out CIC 1 whatever the pool holds
allocateCICAlways(av) == [cic |-> 1, avail |-> removeCIC(av, 1)]

\* SigtranISUPHandler.allocateCIC: [cic, avail]; cic 0 stands for null
allocateCIC(av) ==
    IF av = <<>> THEN [cic |-> 0, avail |-> av]
    ELSE [cic |-> av[1], avail |-> removeCIC(av, av[1])]

\* SigtranISUPHandler.sendIAM: [I, cic]
sendIAM(I, calling, called) ==
    LET a == allocateCIC(I.avail)
    IN  IF a.cic = 0 THEN [I |-> [I EXCEPT !.avail = a.avail], cic |-> 0]
        ELSE [I |-> [I EXCEPT !.avail = a.avail,
                              !.calls = setCall(I.calls, a.cic,
                                                Call("outgoing_setup", calling, called)),
                              !.out = @ \o <<Msg("IAM", a.cic, 0)>>],
              cic |-> a.cic]

\* SigtranISUPHandler.sendANM (the call exists)
sendANM(I, cic) ==
    [I EXCEPT !.calls[cic].state = "answered", !.out = @ \o <<Msg("ANM", cic, 0)>>]

\* SigtranISUPHandler.sendREL
sendREL(I, cic, cause) ==
    IF cic \notin DOMAIN I.calls THEN I
    ELSE [I EXCEPT !.calls[cic].state = "releasing", !.out = @ \o <<Msg("REL", cic, cause)>>]

\* SigtranISUPHandler.sendRLC
sendRLC(I, cic) ==
    LET I1 == IF cic \in DOMAIN I.calls
              THEN [I EXCEPT !.calls = deleteCall(I.calls, cic), !.avail = addCIC(I.avail, cic)]
              ELSE I
    IN  [I1 EXCEPT !.out = @ \o <<Msg("RLC", cic, 0)>>]

\* handleIAM without `this.availableCICs.delete(message.cic)`
handleIAMKeepsCICFree(I, cic, calling, called) ==
    [I EXCEPT !.calls = setCall(I.calls, cic, Call("incoming_setup", calling, called)),
              !.ev = @ \o <<"incomingCall">>]

\* SigtranISUPHandler.handleIAM
handleIAM(I, cic, calling, called) ==
    [I EXCEPT !.calls = setCall(I.calls, cic, Call("incoming_setup", calling, called)),
              !.avail = removeCIC(I.avail, cic),
              !.ev = @ \o <<"incomingCall">>]

\* SigtranISUPHandler.handleACM
handleACM(I, cic) ==
    IF cic \in DOMAIN I.calls THEN [I EXCEPT !.ev = @ \o <<"callProgress">>] ELSE I

\* SigtranISUPHandler.handleANM
handleANM(I, cic) ==
    IF cic \in DOMAIN I.calls
    THEN [I EXCEPT !.calls[cic].state = "answered", !.ev = @ \o <<"callAnswered">>]
    ELSE I

\* SigtranISUPHandler.handleREL
handleREL(I, cic) ==
    IF cic \in DOMAIN I.calls
    THEN sendRLC([I EXCEPT !.calls[cic].state = "releasing", !.ev = @ \o <<"callReleased">>], cic)
    ELSE I

\* SigtranISUPHandler.handleRLC
handleRLC(I, cic) ==
    IF cic \in DOMAIN I.calls
    THEN [I EXCEPT !.calls = deleteCall(I.calls, cic), !.avail = addCIC(I.avail, cic),
                   !.ev = @ \o <<"callCleared">>]
    ELSE I

(***************************************************************************)
(* Actions of the ISUP handler                                             *)
(***************************************************************************)
\* the operation, the CIC it was given (0: none), the CIC sendIAM returned
\* (0: null, -1: not sendIAM) and the exception thrown
IOp(name, cic, result, thrown) ==
    [op |-> name, cic |-> cic, result |-> result, thrown |-> thrown]

\* the constructor fills the pool with the CICs of the range in ascending order
InitISUP ==
    /\ calls = <<>>
    /\ availableCICs = [i \in 1..MaxCIC |-> i]
    /\ isupRunning = FALSE
    /\ isupOut = <<>>
    /\ isupEv = <<>>
    /\ isupOp = IOp("new", 0, -1, "none")

CurrentIsup == Isup(calls, availableCICs, <<>>, <<>>)

IsupApply(op, I) ==
    /\ calls' = I.calls
    /\ availableCICs' = I.avail
    /\ isupOut' = I.out
    /\ isupEv' = I.ev
    /\ isupOp' = op
    /\ UNCHANGED <<lapdVars, nfasVars, sipVars, codecVars, fgVars>>

IsupStart ==
    /\ isupRunning' = TRUE
    /\ IF isupRunning
       THEN IsupApply(IOp("start", 0, -1, "already running"), CurrentIsup)
       ELSE IsupApply(IOp("start", 0, -1, "none"), [CurrentIsup EXCEPT !.ev = <<"started">>])

IsupStop ==
    /\ isupRunning' = FALSE
    /\ IF ~isupRunning
       THEN IsupApply(IOp("stop", 0, -1, "none"), CurrentIsup)
       ELSE IsupApply(IOp("stop", 0, -1, "none"),
                      [CurrentIsup EXCEPT !.calls = <<>>, !.ev = <<"stopped">>])

IsupSendIAM ==
    /\ UNCHANGED isupRunning
    /\ \E n \in OutNumbers :
         LET r == sendIAM(CurrentIsup, n[1], n[2])
         IN  IsupApply(IOp("sendIAM", 0, r.cic, "none"), r.I)

IsupSendACM ==
    /\ UNCHANGED isupRunning
    /\ \E cic \in CICsIn :
         IF cic \notin DOMAIN calls
         THEN IsupApply(IOp("sendACM", cic, -1, "Call not found"), CurrentIsup)
         ELSE IsupApply(IOp("sendACM", cic, -1, "none"),
                        [CurrentIsup EXCEPT !.out = <<Msg("ACM", cic, 0)>>])

IsupSendANM ==
    /\ UNCHANGED isupRunning
    /\ \E cic \in CICsIn :
         IF cic \notin DOMAIN calls
         THEN IsupApply(IOp("sendANM", cic, -1, "Call not found"), CurrentIsup)
         ELSE IsupApply(IOp("sendANM", cic, -1, "none"), sendANM(CurrentIsup, cic))

IsupSendREL ==
    /\ UNCHANGED isupRunning
    /\ \E cic \in CICsIn, cause \in Causes :
         IsupApply(IOp("sendREL", cic, -1, "none"), sendREL(CurrentIsup, cic, cause))

IsupSendRLC ==
    /\ UNCHANGED isupRunning
    /\ \E cic \in CICsIn :
         IsupApply(IOp("sendRLC", cic, -1, "none"), sendRLC(CurrentIsup, cic))

\* SigtranISUPHandler.handleIncomingMessage
IsupHandleIAM ==
    /\ UNCHANGED isupRunning
    /\ \E cic \in CICsIn, n \in InNumbers :
         IsupApply(IOp("handleIAM", cic, -1, "none"), handleIAM(CurrentIsup, cic, n[1], n[2]))

IsupHandleACM ==
    /\ UNCHANGED isupRunning
    /\ \E cic \in CICsIn :
         IsupApply(IOp("handleACM", cic, -1, "none"), handleACM(CurrentIsup, cic))

IsupHandleANM ==
    /\ UNCHANGED isupRunning
    /\ \E cic \in CICsIn :
         IsupApply(IOp("handleANM", cic, -1, "none"), handleANM(CurrentIsup, cic))

IsupHandleREL ==
    /\ UNCHANGED isupRunning
    /\ \E cic \in CICsIn :
         IsupApply(IOp("handleREL", cic, -1, "none"), handleREL(CurrentIsup, cic))

IsupHandleRLC ==
    /\ UNCHANGED isupRunning
    /\ \E cic \in CICsIn :
         IsupApply(IOp("handleRLC", cic, -1, "none"), handleRLC(CurrentIsup, cic))

NextISUP ==
    \/ IsupStart
    \/ IsupStop
    \/ IsupSendIAM
    \/ IsupSendACM
    \/ IsupSendANM
    \/ IsupSendREL
    \/ IsupSendRLC
    \/ IsupHandleIAM
    \/ IsupHandleACM
    \/ IsupHandleANM
    \/ IsupHandleREL
    \/ IsupHandleRLC

(***************************************************************************)
(* SIPHandler                                                              *)
(* A CallSession is [state, direction, startTime, rtp]; its id and         *)
(* sipCallId are the key of the map; rtp is the remote port parseSDP found *)
(* in the offer (0: rtpSession is undefined).                              *)
(* The handler state is S = [sessions, out, ev].                           *)
(***************************************************************************)
CallIds == {"a@gw", "b@gw"}

Directions == {"inbound", "outbound"}

\* the body of an INVITE: 0 (none) or the port of its m=audio line
Bodies == {0, 5004}

StatusCodes == {180, 200, 486}

Session(state, direction, startTime, rtp) ==
    [state |-> state, direction |-> direction, startTime |-> startTime, rtp |-> rtp]

Sip(ss, out, ev) == [sessions |-> ss, out |-> out, ev |-> ev]

SipMsg(method, callId) == [method |-> method, callId |-> callId]

\* SIPHandler.createSession at time t
createSession(S, callId, direction, t) ==
    [S EXCEPT !.sessions = [k \in DOMAIN S.sessions \cup {callId} |->
                               IF k = callId THEN Session("setup", direction, t, 0)
                               ELSE S.sessions[k]],
              !.ev = @ \o <<"sessionCreated">>]

\* SIPHandler.parseSDP on the session of callId
parseSDP(S, callId, body) ==
    IF body # 0 THEN [S EXCEPT !.sessions[callId].rtp = body] ELSE S

\* SIPHandler.handleInvite
handleInvite(S, callId, body, t) ==
    LET S1 == createSession(S, callId, "inbound", t)
    IN  [parseSDP(S1, callId, body) EXCEPT !.ev = @ \o <<"incomingCall">>]

\* SIPHandler.terminateSession
terminateSession(S, callId) ==
    IF callId \in DOMAIN S.sessions
    THEN [S EXCEPT !.sessions = [k \in DOMAIN S.sessions \ {callId} |-> S.sessions[k]],
                   !.ev = @ \o <<"sessionTerminated">>]
    ELSE S

\* SIPHandler.updateSession with {state: st}
updateSession(S, callId, st) ==
    IF callId \in DOMAIN S.sessions
    THEN [S EXCEPT !.sessions[callId].state = st, !.ev = @ \o <<"sessionUpdated">>]
    ELSE S

\* SIPHandler.sendResponse: [S, thrown]
sendResponse(S, callId, code) ==
    IF callId \notin DOMAIN S.sessions
    THEN [S |-> S, thrown |-> "Session not found"]
    ELSE LET st == IF code >= 200 /\ code < 300 THEN "connected"
                   ELSE IF code >= 180 /\ code < 200 THEN "alerting"
                   ELSE S.sessions[callId].state
         IN  [S |-> [S EXCEPT !.sessions[callId].state = st,
                              !.out = @ \o <<SipMsg(code, callId)>>],
              thrown |-> "none"]

\* SIPHandler.sendBye
sendBye(S, callId) ==
    IF callId \notin DOMAIN S.sessions THEN S
    ELSE [terminateSession(S, callId) EXCEPT !.out = @ \o <<SipMsg("BYE", callId)>>]

\* SIPHandler.handleBye: [S, thrown]
handleBye(S, callId) == sendResponse(terminateSession(S, callId), callId, 200)

\* SIPHandler.handleResponse
handleResponse(S, callId, code) ==
    LET S1 == IF code >= 200 /\ code < 300 THEN updateSession(S, callId, "connected")
              ELSE IF code >= 400 THEN terminateSession(S, callId)
              ELSE S
    IN  [S1 EXCEPT !.ev = @ \o <<"response">>]

(***************************************************************************)
(* Actions of the SIP handler                                              *)
(***************************************************************************)
SOp(name, callId, thrown) == [op |-> name, callId |-> callId, thrown |-> thrown]

InitSIP ==
    /\ sessions = <<>>
    /\ sipRunning = FALSE
    /\ now = 0
    /\ sipOut = <<>>
    /\ sipEv = <<>>
    /\ sipOp = SOp("new", "-", "none")

CurrentSip == Sip(sessions, <<>>, <<>>)

SipApply(op, S) ==
    /\ sessions' = S.sessions
    /\ sipOut' = S.out
    /\ sipEv' = S.ev
    /\ sipOp' = op
    /\ UNCHANGED <<lapdVars, nfasVars, isupVars, codecVars, fgVars>>

\* time passes
SipTick ==
    /\ now < MaxClock
    /\ now' = now + 1
    /\ UNCHANGED sipRunning
    /\ SipApply(SOp("tick", "-", "none"), CurrentSip)

SipStart ==
    /\ ~sipRunning
    /\ sipRunning' = TRUE
    /\ UNCHANGED now
    /\ SipApply(SOp("start", "-", "none"), [CurrentSip EXCEPT !.ev = <<"started">>])

SipStop ==
    /\ sipRunning
    /\ sipRunning' = FALSE
    /\ UNCHANGED now
    /\ SipApply(SOp("stop", "-", "none"), Sip(<<>>, <<>>, <<"stopped">>))

SipCreateSession ==
    /\ UNCHANGED <<now, sipRunning>>
    /\ \E id \in CallIds, d \in Directions :
         SipApply(SOp("createSession", id, "none"), createSession(CurrentSip, id, d, now))

\* SIPHandler.sendInvite: generateCallId returns a Call-ID not in use
SipSendInvite ==
    /\ UNCHANGED <<now, sipRunning>>
    /\ \E id \in CallIds \ DOMAIN sessions :
         SipApply(SOp("sendInvite", id, "none"),
                  [createSession(CurrentSip, id, "outbound", now)
                      EXCEPT !.out = @ \o <<SipMsg("INVITE", id)>>])

\* SIPHandler.handleIncomingMessage with an INVITE
SipHandleInvite ==
    /\ UNCHANGED <<now, sipRunning>>
    /\ \E id \in CallIds, body \in Bodies :
         SipApply(SOp("handleInvite", id, "none"), handleInvite(CurrentSip, id, body, now))

SipSendResponse ==
    /\ UNCHANGED <<now, sipRunning>>
    /\ \E id \in CallIds, code \in StatusCodes :
         LET r == sendResponse(CurrentSip, id, code)
         IN  SipApply(SOp("sendResponse", id, r.thrown), r.S)

SipSendBye ==
    /\ UNCHANGED <<now, sipRunning>>
    /\ \E id \in CallIds :
         SipApply(SOp("sendBye", id, "none"), sendBye(CurrentSip, id))

\* SIPHandler.handleIncomingMessage with a BYE
SipHandleBye ==
    /\ UNCHANGED <<now, sipRunning>>
    /\ \E id \in CallIds :
         LET r == handleBye(CurrentSip, id)
         IN  SipApply(SOp("handleBye", id, r.thrown), r.S)

\* SIPHandler.handleIncomingMessage with a response
SipHandleResponse ==
    /\ UNCHANGED <<now, sipRunning>>
    /\ \E id \in CallIds, code \in StatusCodes :
         SipApply(SOp("handleResponse", id, "none"), handleResponse(CurrentSip, id, code))

SipTerminateSession ==
    /\ UNCHANGED <<now, sipRunning>>
    /\ \E id \in CallIds :
         SipApply(SOp("terminateSession", id, "none"), terminateSession(CurrentSip, id))

NextSIP ==
    \/ SipTick
    \/ SipStart
    \/ SipStop
    \/ SipCreateSession
    \/ SipSendInvite
    \/ SipHandleInvite
    \/ SipSendResponse
    \/ SipSendBye
    \/ SipHandleBye
    \/ SipHandleResponse
    \/ SipTerminateSession

(***************************************************************************)
(* The conversions, applied to inputs drawn from small sets                *)
(***************************************************************************)
\* address octets of SAPI 0, TEI 0 with the C/R bit clear or set
AddressesIn == {<<0, 1>>, <<2, 1>>}

\* address, control and information octets of well-formed frames
LapdBodiesIn ==
    {a \o <<ns * 2, nr * 2 + pf>> \o info :
        a \in AddressesIn, ns \in SeqIn, nr \in {0, Modulus - 1}, pf \in {0, 1},
        info \in {<<>>, SetupOctets}}
    \cup {a \o <<1 + 4 * s, nr * 2 + pf>> :
        a \in AddressesIn, s \in 0..2, nr \in {0, 5}, pf \in {0, 1}}
    \cup {a \o <<UTypeCodes[k] + 16 * pf>> :
        a \in AddressesIn, k \in DOMAIN UTypeCodes, pf \in {0, 1}}

\* frames whose FCS is the CRC of their address, control and information
WellFormedLapdIn == {withFCS(b, calculateFCS(b)) : b \in LapdBodiesIn}

(***************************************************************************)
(* IAM parameters (SigtranISUPHandler). A number is the sequence of the    *)
(* values parseInt reads from its characters; what parseDigits returns is  *)
(* the sequence of the values whose toString it concatenates.              *)
(***************************************************************************)
RECURSIVE packDigits(_, _)
\* the loop of writeCalledPartyNumber / writeCallingPartyNumber from index i
\* (0-based) on: two digits an octet, the first in the low nibble, 0 for a
\* missing second digit
packDigits(number, i) ==
    IF i >= Len(number) THEN <<>>
    ELSE LET digit1 == number[i + 1]
             digit2 == IF i + 1 < Len(number) THEN number[i + 2] ELSE 0
         IN  <<digit2 * 16 + digit1>> \o packDigits(number, i + 2)

\* SigtranISUPHandler.writeCalledPartyNumber: the octets written
writeCalledPartyNumber(number) ==
    <<4, (Len(number) + 1) \div 2 + 1, 131>> \o packDigits(number, 0)

\* SigtranISUPHandler.writeCallingPartyNumber: the octets written
writeCallingPartyNumber(number) ==
    <<10, (Len(number) + 1) \div 2 + 2, 131, 0>> \o packDigits(number, 0)

\* SigtranISUPHandler.writeNatureOfConnectionIndicators: the octets written
writeNatureOfConnectionIndicators == <<6, 1, 0>>

\* SigtranISUPHandler.buildIAMParameters; writeUInt8 throws beyond the 64
\* octets allocated
buildIAMParameters(callingNumber, calledNumber) ==
    Bind(writeCalledPartyNumber(calledNumber) \o writeCallingPartyNumber(callingNumber)
            \o writeNatureOfConnectionIndicators, LAMBDA params :
        IF Len(params) > 64 THEN Raised("RangeError") ELSE Returned(params))

RECURSIVE parseDigits(_)
\* SigtranISUPHandler.parseDigits: the low nibble, then the high nibble
\* unless it is 0
parseDigits(buffer) ==
    IF buffer = <<>> THEN <<>>
    ELSE LET byte   == Head(buffer)
             digit1 == byte % 16
             digit2 == (byte \div 16) % 16
         IN  <<digit1>> \o (IF digit2 # 0 THEN <<digit2>> ELSE <<>>)
                 \o parseDigits(Tail(buffer))

\* Buffer.slice(from, to) with 0-based bounds, clamped to the buffer
slice(buffer, from, to) == SubSeq(buffer, Min(from, Len(buffer)) + 1, Min(to, Len(buffer)))

\* a number parseIAMParameters did not find
Undefined == <<"undefined">>

RECURSIVE parseIAMLoop(_, _, _)
\* the loop of parseIAMParameters at `offset` with the numbers found so far;
\* readUInt8 throws beyond the end
parseIAMLoop(parameters, offset, found) ==
    IF offset >= Len(parameters) THEN Returned(found)
    ELSE IF offset + 1 >= Len(parameters) THEN Raised("RangeError")
    ELSE LET tag    == parameters[offset + 1]
             length == parameters[offset + 2]
             at     == offset + 2
         IN  parseIAMLoop(parameters, at + length,
                 IF tag = 4
                 THEN [found EXCEPT !.calledNumber =
                          parseDigits(slice(parameters, at + 1, at + length))]
                 ELSE IF tag = 10
                 THEN [found EXCEPT !.callingNumber =
                          parseDigits(slice(parameters, at + 2, at + length))]
                 ELSE found)

\* SigtranISUPHandler.parseIAMParameters
parseIAMParameters(parameters) ==
    parseIAMLoop(parameters, 0, [callingNumber |-> Undefined, calledNumber |-> Undefined])

\* parseIAMParameters(buildIAMParameters(calling, called))
iamRoundTrip(callingNumber, calledNumber) ==
    Bind(buildIAMParameters(callingNumber, calledNumber), LAMBDA b :
        IF b.thrown # "none" THEN b ELSE parseIAMParameters(b.value))

InitCodec ==
    /\ codecIn = <<>>
    /\ codecOut = Returned(<<>>)
    /\ codecOp = "new"
    /\ firstVariant = ""

CodecApply(op, in, out) ==
    /\ codecOp' = op
    /\ codecIn' = in
    /\ codecOut' = out
    /\ UNCHANGED <<firstVariant, lapdVars, nfasVars, isupVars, sipVars, fgVars>>

\* a translation of a message of the call session, its TranslationContext
\* naming `variant`
CodecTranslate(op, message, variant, out) ==
    /\ codecOp' = op
    /\ codecIn' = <<message, variant>>
    /\ codecOut' = out
    /\ firstVariant' = IF firstVariant = "" THEN variant ELSE firstVariant
    /\ UNCHANGED <<lapdVars, nfasVars, isupVars, sipVars, fgVars>>

\* buildLAPDFrame(parseLAPDFrame(b))
lapdRoundTrip(b) ==
    LET f == parseLAPDFrame(b)
    IN  IF f.thrown # "none" THEN f ELSE buildLAPDFrame(f.value)

CodecLapdRoundTrip ==
    \E b \in WellFormedLapdIn : CodecApply("lapdRoundTrip", b, lapdRoundTrip(b))

\* call references of one and of two octets, the flag (bit 8 of the first
\* octet) clear or set
CallRefsIn ==
    {<<1, flag * 128 + v>> : flag \in {0, 1}, v \in {1, 127}}
    \cup {<<2, flag * 128 + hi, lo>> : flag \in {0, 1}, hi \in {0, 1}, lo \in {1, 200}}

\* information elements: single-octet ones (sending complete, a shift),
\* bearer capability, cause, an element with no content and an unknown tag
IEsIn == {<<161>>, <<144>>, <<4, 2, 128, 144>>, <<8, 2, 128, 144>>, <<112, 0>>, <<122, 1, 7>>}

\* well-formed messages: SETUP or DISCONNECT with up to two elements
WellFormedQ931In ==
    {<<8>> \o cr \o <<mt>> \o ies :
        cr \in CallRefsIn, mt \in {5, 69},
        ies \in {<<>>} \cup IEsIn \cup {a \o b : a \in IEsIn, b \in IEsIn}}

\* buildQ931Message(parseQ931Message(m))
q931RoundTrip(m) ==
    Bind(parseQ931Message(m), LAMBDA p :
        IF p.thrown # "none" THEN p ELSE Returned(buildQ931Message(p.value)))

CodecQ931RoundTrip ==
    \E m \in WellFormedQ931In : CodecApply("q931RoundTrip", m, q931RoundTrip(m))

\* the translation variants
VariantsIn == {"itu", "ansi", "etsi"}

\* Q.850 cause values; 0 stands for a message without cause
CausesIn == 0..127

\* DISCONNECT and RELEASE messages
ReleasesIn ==
    {PRIMessage(mt, <<>>, <<>>, "", cause) : mt \in {"disconnect", "release"}, cause \in CausesIn}

CodecTranslateRelease ==
    \E priMessage \in ReleasesIn, variant \in VariantsIn :
        CodecTranslate("translatePRIToSIP", priMessage, variant,
                       translatePRIToSIP(priMessage, variant))

\* the cause parameter of an ISUP REL: tag 0x12, length 2, the location and
\* coding standard, and the cause value with bit 8 set
causeParameter(cause) == <<18, 2, 128, BitOr128(cause)>>

\* ISUP REL messages (type 0x0C) on CIC 1
RELsIn == {[messageType |-> 12, parameters |-> causeParameter(cause), cic |-> 1] :
              cause \in 1..127}

CodecTranslateREL ==
    \E isupMessage \in RELsIn, variant \in VariantsIn :
        CodecTranslate("translateISUPToSIPT", isupMessage, variant,
                       translateISUPToSIPT(isupMessage, variant))

\* digit strings
NumbersIn == {<<"5">>, <<"1", "2">>, <<"0", "0", "7">>}

BearersIn == {"speech", "3.1khz-audio", "unrestricted-digital"}

SetupsIn ==
    {PRIMessage("setup", a, b, c, 0) : a \in NumbersIn, b \in NumbersIn, c \in BearersIn}

\* translateSIPToPRI(translatePRIToSIP(setup))
setupRoundTrip(priMessage, variant) ==
    Bind(translatePRIToSIP(priMessage, variant), LAMBDA invite :
        IF invite.thrown # "none" THEN invite ELSE translateSIPToPRI(invite.value))

CodecSetupRoundTrip ==
    \E priMessage \in SetupsIn, variant \in VariantsIn :
        CodecTranslate("setupRoundTrip", priMessage, variant,
                       setupRoundTrip(priMessage, variant))

\* SIP status codes: provisional, 200, redirection, and the client, server
\* and global failures around the entries of sipToCauseMap
StatusCodesIn ==
    {100, 180, 183, 199, 200, 302} \cup (400..418) \cup (480..490) \cup (500..506)
        \cup {600, 603, 699}

\* BYE and status messages whose method is the bare status code
SipReleasesIn ==
    {SIPOut("BYE", 0, "", "2 BYE", <<>>, <<>>, 0, "")}
    \cup {SIPOut("status", code, "", "1 INVITE", <<>>, <<>>, 0, "") : code \in StatusCodesIn}

CodecTranslateStatus ==
    \E sipMessage \in SipReleasesIn, variant \in VariantsIn :
        CodecTranslate("translateSIPToPRI", sipMessage, variant,
                       translateSIPToPRI(sipMessage))

\* the digits of the numbers: 0, and digits that keep the nibbles apart
IamDigits == {0, 1, 9}

\* the numbers are one to MaxDigits digits long
IamNumbersIn == UNION {[1..n -> IamDigits] : n \in 1..MaxDigits}

CodecIAMRoundTrip ==
    \E callingNumber \in IamNumbersIn, calledNumber \in IamNumbersIn :
        CodecApply("iamRoundTrip", <<callingNumber, calledNumber>>,
                   iamRoundTrip(callingNumber, calledNumber))

NextCodec ==
    \/ CodecLapdRoundTrip
    \/ CodecIAMRoundTrip
    \/ CodecQ931RoundTrip

\* the translations of the messages of one call session
NextTranslator ==
    \/ CodecTranslateStatus
    \/ CodecTranslateRelease
    \/ CodecTranslateREL
    \/ CodecSetupRoundTrip

(***************************************************************************)
(* FeatureGroupHandler (src/src/protocols/feature-group.ts)                *)
(* A call object lives on in the closures of the timeouts that captured it *)
(* after clearCall has removed it from activeCalls: fgCalls keeps every    *)
(* object created, activeCalls the ids in the table. Call ids are 1, 2, .. *)
(* in the order generateCallId made them.                                  *)
(***************************************************************************)
\* the configuration the handler is constructed with: Feature Group D with
\* wink start, ANI delivery without OLI and CIC, no billing records
FgConfig ==
    [type |-> "fgd", signaling |-> "wink_start", aniEnabled |-> TRUE,
     includeOLI |-> FALSE, includeCIC |-> FALSE, billingEnabled |-> FALSE]

\* the keys of mfSignaling.digits
MfTones == {"1", "2", "3", "4", "5", "6", "7", "8", "9", "0",
            "KP1", "KP2", "ST", "ST2P", "ST3P"}

FgCall(direction, state, calledNumber, ani) ==
    [direction |-> direction, state |-> state, calledNumber |-> calledNumber, ani |-> ani]

FgEv(name, id, tone) == [name |-> name, id |-> id, tone |-> tone]

\* a timeout or continuation of call `id`: `pc` is what runs next
FgTask(id, pc, tones) == [id |-> id, pc |-> pc, tones |-> tones]

\* FeatureGroupHandler.clearCall: the timers whose key starts with the call
\* id are cleared, the call leaves the table
clearCall(tm, id) == {k \in tm : k[1] # id}

\* the tones startDialing sends in order: KP, for Feature Group D with ANI
\* the digits sendANI sends ('00' and the ANI), the called number, ST
dialTones(call) ==
    <<"KP">>
    \o (IF FgConfig.type = "fgd" /\ call.ani # <<>> /\ FgConfig.aniEnabled
        THEN <<"0", "0">> \o call.ani
             \o (IF FgConfig.includeOLI THEN <<"0", "0">> ELSE <<>>)
        ELSE <<>>)
    \o call.calledNumber
    \o <<"ST">>

RECURSIVE skipUnknownTones(_)
\* sendMFTone returns at once, with no event and no delay, for a tone that
\* is no key of mfSignaling.digits
skipUnknownTones(tones) ==
    IF tones # <<>> /\ Head(tones) \notin MfTones THEN skipUnknownTones(Tail(tones))
    ELSE tones

InitFG ==
    /\ fgCalls = <<>>
    /\ activeCalls = {}
    /\ timers = {}
    /\ dialing = {}
    /\ fgEv = <<>>
    /\ fgOp = [op |-> "new", id |-> 0]

FgApply(op, id, objs, active, tm, tasks, ev) ==
    /\ fgOp' = [op |-> op, id |-> id]
    /\ fgCalls' = objs
    /\ activeCalls' = active
    /\ timers' = tm
    /\ dialing' = tasks
    /\ fgEv' = ev
    /\ UNCHANGED <<lapdVars, nfasVars, isupVars, sipVars, codecVars>>

\* called numbers and ANIs (<<>>: no ANI given)
FgNumbersIn == {<<"5">>, <<"5", "1">>}
FgAnisIn == {<<>>, <<"7">>}

\* FeatureGroupHandler.initiateOutboundCall, performSeizure and
\* performWinkStartSeizure
FgInitiateOutboundCall ==
    /\ Len(fgCalls) < MaxCalls
    /\ \E calledNumber \in FgNumbersIn, ani \in FgAnisIn :
         Bind(Len(fgCalls) + 1, LAMBDA id :
            FgApply("initiateOutboundCall", id,
                    Append(fgCalls, FgCall("outbound", "seizing", calledNumber, ani)),
                    activeCalls \cup {id}, timers \cup {<<id, "wink">>}, dialing,
                    <<FgEv("seizureSignal", id, "")>>))

\* FeatureGroupHandler.handleInboundCall up to the delay of sendWinkResponse
FgHandleInboundCall ==
    /\ Len(fgCalls) < MaxCalls
    /\ Bind(Len(fgCalls) + 1, LAMBDA id :
            FgApply("handleInboundCall", id,
                    Append(fgCalls, FgCall("inbound", "seizing", <<>>, <<>>)),
                    activeCalls \cup {id}, timers,
                    dialing \cup {FgTask(id, "inbound", <<>>)},
                    <<FgEv("winkResponse", id, "")>>))

\* processInboundSeizure after the wink delay: startInboundDigitCollection
FgInboundSeizureResume ==
    \E t \in dialing :
        /\ t.pc = "inbound"
        /\ FgApply("processInboundSeizure", t.id,
                   [fgCalls EXCEPT ![t.id].state = "dialing"], activeCalls,
                   timers \cup {<<t.id, "digits">>}, dialing \ {t},
                   <<FgEv("startDigitCollection", t.id, "")>>)

\* FeatureGroupHandler.processWinkResponse
FgProcessWinkResponse ==
    \E id \in 1..Len(fgCalls) :
        IF id \notin activeCalls \/ fgCalls[id].state # "seizing"
        THEN FgApply("processWinkResponse", id, fgCalls, activeCalls, timers, dialing, <<>>)
        ELSE FgApply("processWinkResponse", id,
                     [fgCalls EXCEPT ![id].state = "winking"], activeCalls,
                     timers \ {<<id, "wink">>},
                     dialing \cup {FgTask(id, "wink", <<>>)}, <<>>)

\* the next tone of startDialing is sent, or with none left the call
\* proceeds and dialingComplete is emitted
sendNextTone(objs, t, tones) ==
    Bind(skipUnknownTones(tones), LAMBDA rest :
        IF rest = <<>>
        THEN FgApply("startDialing", t.id, [objs EXCEPT ![t.id].state = "proceeding"],
                     activeCalls, timers, dialing \ {t},
                     <<FgEv("dialingComplete", t.id, "")>>)
        ELSE FgApply("startDialing", t.id, objs, activeCalls, timers,
                     (dialing \ {t}) \cup {FgTask(t.id, "tones", Tail(rest))},
                     <<FgEv("mfTone", t.id, Head(rest))>>))

\* the wink-duration timeout of processWinkResponse fires: startDialing
FgStartDialing ==
    \E t \in dialing :
        /\ t.pc = "wink"
        /\ sendNextTone([fgCalls EXCEPT ![t.id].state = "dialing"], t,
                        dialTones(fgCalls[t.id]))

\* startDialing after the delays that follow a tone
FgContinueDialing ==
    \E t \in dialing :
        /\ t.pc = "tones"
        /\ sendNextTone(fgCalls, t, t.tones)

\* the wink timer fires: handleSeizureTimeout
FgSeizureTimeout ==
    \E id \in 1..Len(fgCalls) :
        /\ <<id, "wink">> \in timers
        /\ IF id \notin activeCalls
           THEN FgApply("handleSeizureTimeout", id, fgCalls, activeCalls,
                        timers \ {<<id, "wink">>}, dialing, <<>>)
           ELSE FgApply("handleSeizureTimeout", id,
                        [fgCalls EXCEPT ![id].state = "releasing"], activeCalls \ {id},
                        clearCall(timers, id), dialing, <<FgEv("seizureTimeout", id, "")>>)

\* the digit timer fires: handleDigitTimeout
FgDigitTimeout ==
    \E id \in 1..Len(fgCalls) :
        /\ <<id, "digits">> \in timers
        /\ IF id \notin activeCalls
           THEN FgApply("handleDigitTimeout", id, fgCalls, activeCalls,
                        timers \ {<<id, "digits">>}, dialing, <<>>)
           ELSE FgApply("handleDigitTimeout", id,
                        [fgCalls EXCEPT ![id].state = "releasing"], activeCalls \ {id},
                        clearCall(timers, id), dialing, <<FgEv("digitTimeout", id, "")>>)

\* FeatureGroupHandler.processDisconnectSupervision
FgProcessDisconnectSupervision ==
    \E id \in 1..Len(fgCalls) :
        IF id \notin activeCalls
        THEN FgApply("processDisconnectSupervision", id, fgCalls, activeCalls, timers,
                     dialing, <<>>)
        ELSE FgApply("processDisconnectSupervision", id,
                     [fgCalls EXCEPT ![id].state = "releasing"], activeCalls \ {id},
                     clearCall(timers, id), dialing, <<FgEv("callDisconnected", id, "")>>)

NextFG ==
    \/ FgInitiateOutboundCall
    \/ FgHandleInboundCall
    \/ FgInboundSeizureResume
    \/ FgProcessWinkResponse
    \/ FgStartDialing
    \/ FgContinueDialing
    \/ FgSeizureTimeout
    \/ FgDigitTimeout
    \/ FgProcessDisconnectSupervision

\* the stand-alone handler is a FAS handler
InitFAS ==
    /\ InitLAPD
    /\ dch.mode = "fas"

Init == InitFAS /\ InitNFAS /\ InitISUP /\ InitSIP /\ InitCodec /\ InitFG

\* the handlers after construction, the D-channel handler configured FAS or
\* as an NFAS backup interface
InitAnyMode == InitLAPD /\ InitNFAS /\ InitISUP /\ InitSIP /\ InitCodec /\ InitFG

\* the stand-alone D-channel handler
SpecLAPD == InitAnyMode /\ [][NextLAPD]_vars

SpecNFAS == Init /\ [][NextNFAS]_vars

SpecISUP == Init /\ [][NextISUP]_vars

SpecSIP == Init /\ [][NextSIP]_vars

\* the conversions between octets, frames and messages
SpecCodec == Init /\ [][NextCodec]_vars

\* the protocol translator
SpecTranslator == Init /\ [][NextTranslator]_vars

\* the Feature Group handler
SpecFG == Init /\ [][NextFG]_vars
(***************************************************************************)
(* Properties                                                              *)
(***************************************************************************)
\* the I-frames of the retransmit queue, in queue order
IFramesPending(h) ==
    SelectSeqBy(h.acknowledgePending, {f \in Range(h.acknowledgePending) : f.type = "I"})

\* C1: in every reachable state of a LAPD engine the I-frames of the
\* retransmit queue are exactly one frame for each sequence number in
\* [V(A), V(S)) modulo 128: there are (V(S) - V(A)) mod 128 of them and each
\* of V(A), V(A)+1, ..., V(S)-1 is the N(S) of exactly one.
C1_QueueHoldsWindow ==
    LET n  == (dch.vs - dch.va) % Modulus
        iq == IFramesPending(dch)
    IN  /\ Len(iq) = n
        /\ \A k \in 0..(n - 1) :
             Cardinality({i \in 1..Len(iq) : iq[i].ns = (dch.va + k) % Modulus}) = 1

\* C2: whenever the NFAS group is active, its active span is a member span
\* whose LAPD engine is in the ESTABLISHED state.
C2_ActiveGroupIsEstablished ==
    grp.state = "active" =>
        /\ grp.activeSpan \in SpanIds
        /\ spans[grp.activeSpan].state = "established"

\* C2, its case: the group has just been activated by the SABME that
\* established the engine of its primary span.
C2_Witness ==
    /\ grp.state = "active"
    /\ nfasOp.op = "receive"
    /\ nfasOp.kind = "SABME"
    /\ Ev("groupActivated", 0, 0, grp.activeSpan) \in Range(nfasEv)
    /\ spans[grp.activeSpan].state = "established"

\* C3: no CIC is at the same time in the free pool and owned by an active
\* call, and the CIC sendIAM returns is not owned by a call when it is
\* allocated.
C3_CicFreeOrOwned ==
    /\ [](Range(availableCICs) \cap DOMAIN calls = {})
    /\ [][(isupOp'.op = "sendIAM" /\ isupOp'.result # 0)
            => isupOp'.result \notin DOMAIN calls]_vars

\* C3, its case: sendIAM has returned a CIC while an incoming call owns
\* another CIC and a released CIC is back in the pool.
C3_Witness ==
    /\ isupOp.op = "sendIAM"
    /\ isupOp.result # 0
    /\ \E c \in DOMAIN calls : c # isupOp.result /\ calls[c].state = "incoming_setup"
    /\ availableCICs # <<>>

\* C4: when the group is active on span 1 (the primary of [1,2,3]) with no
\* switchover yet and span 1's engine reports an error, the group does not
\* become inactive: it is switching or active, and when it is active it is
\* active on span 2 with switchoverCount = 1.
C4_ErrorSwitchesToSpan2 ==
    [][(/\ grp.state = "active"
        /\ grp.activeSpan = 1
        /\ stats.switchoverCount = 0
        /\ Ev("error", 1, 0, 0) \in Range(nfasEv'))
       => (/\ grp'.state \in {"switching", "active"}
           /\ grp'.state = "active" =>
                (grp'.activeSpan = 2 /\ stats'.switchoverCount = 1))]_vars

\* C5: on an established link an I-frame handed to sendQ931Message stays
\* unacknowledged under the supervision of T200, whose expiries retransmit
\* it and finally take the link down: after the call the frame is in the
\* retransmit queue and T200 is running.
C5_UnackedIFrameUnderT200 ==
    [][(dchOp'.op = "sendQ931Message" /\ isEstablished(dch))
       => (dch'.t200 /\ IFramesPending(dch') # <<>>)]_vars

\* C6: a received I-frame is delivered upstream only if its N(S) equals
\* V(R), and V(R) then advances by one modulo 128; on an established link
\* an I-frame whose N(S) differs from V(R) is answered by a REJ carrying
\* N(R) = V(R), is not delivered and leaves V(R) unchanged.
C6_InSequenceDelivery ==
    [][(dchOp'.op = "receive" /\ dchOp'.kind = "I")
       => (/\ "q931Message" \in Range(dchEv') =>
                (dchOp'.ns = dch.vr /\ dch'.vr = (dch.vr + 1) % Modulus)
           /\ (isEstablished(dch) /\ dchOp'.ns = dch.vr) =>
                dch'.vr = (dch.vr + 1) % Modulus
           /\ (isEstablished(dch) /\ dchOp'.ns # dch.vr) =>
                (/\ dchOut' = <<Frame("S", "REJ", -1, dch.vr, FALSE, "none")>>
                 /\ "q931Message" \notin Range(dchEv')
                 /\ dch'.vr = dch.vr))]_vars

C8_DuplicateCallIdRejected ==
    [][\A id \in CallIds :
         (/\ id \in DOMAIN sessions
          /\ sipOp'.callId = id
          /\ sipOp'.op \in {"createSession", "handleInvite"})
         => (/\ sipOp'.thrown = "KeyCollision"
             /\ id \in DOMAIN sessions'
             /\ sessions'[id] = sessions[id])]_vars

\* C9: when an IAM arrives on a CIC whose call is in outgoing_setup, either
\* the local call keeps the CIC unchanged, or a REL with cause 44 is sent on
\* that CIC and the local call is re-originated on a newly allocated CIC.
C9_GlareResolvedByPointCode ==
    [][\A c \in CICs :
         (/\ c \in DOMAIN calls
          /\ calls[c].state = "outgoing_setup"
          /\ isupOp'.op = "handleIAM"
          /\ isupOp'.cic = c)
         => (\/ (c \in DOMAIN calls' /\ calls'[c] = calls[c])
             \/ (/\ Msg("REL", c, 44) \in Range(isupOut')
                 /\ \E c2 \in DOMAIN calls' \ (DOMAIN calls \cup {c}) :
                      calls'[c2] = calls[c]))]_vars

\* C10: allocation returns the lowest-numbered free CIC.
C10_FirstFreeFit ==
    [][(isupOp'.op = "sendIAM" /\ availableCICs # <<>>)
       => (\A c \in Range(availableCICs) : isupOp'.result <= c)]_vars

\* C11: for every well-formed LAPD frame b (FCS correct),
\* buildLAPDFrame(parseLAPDFrame(b)) returns b, octet for octet.
C11_LapdRoundTrip ==
    (codecOp = "lapdRoundTrip" /\ codecIn \in WellFormedLapdIn)
        => codecOut = Returned(codecIn)

\* C12: for every well-formed Q.931 message m (call reference of 1 or 2
\* octets, flag 0 or 1, single-octet and variable-length elements),
\* buildQ931Message(parseQ931Message(m)) returns m octet for octet.
C12_Q931RoundTrip ==
    (codecOp = "q931RoundTrip" /\ codecIn \in WellFormedQ931In)
        => codecOut = Returned(codecIn)

\* C13: for every variant, a DISCONNECT or RELEASE with cause 16 is
\* translated to a BYE, and one with any other cause to a final response
\* whose status code is in 400..699.
C13_ReleaseMapsToByeOrFinal ==
    (codecOp = "translatePRIToSIP" /\ codecIn[1].cause # 0)
        => /\ codecOut.thrown = "none"
           /\ IF codecIn[1].cause = 16
              THEN codecOut.value.method = "BYE"
              ELSE /\ codecOut.value.method = "status"
                   /\ codecOut.value.code \in 400..699

\* C14: for every cause value N in the cause parameter of a REL,
\* translateISUPToSIPT yields a BYE whose Reason header carries cause N and
\* the Q.850 text of N.
C14_RelCauseCarried ==
    codecOp = "translateISUPToSIPT"
        => /\ codecOut.thrown = "none"
           /\ codecOut.value.method = "BYE"
           /\ codecOut.value.reasonCause = codecIn[1].parameters[4] % 128
           /\ codecOut.value.reasonText = getQ850ReasonText(codecIn[1].parameters[4] % 128)

\* C15: a SETUP translated to an INVITE and back is a SETUP with the same
\* calling number, called number and bearer capability.
C15_SetupRoundTrip ==
    codecOp = "setupRoundTrip"
        => /\ codecOut.thrown = "none"
           /\ codecOut.value.messageType = "setup"
           /\ codecOut.value.callingNumber = codecIn[1].callingNumber
           /\ codecOut.value.calledNumber = codecIn[1].calledNumber
           /\ codecOut.value.bearerCapability = codecIn[1].bearerCapability

\* C16: successive new I-frames of an established engine carry N(S) = 0, 1,
\* ..., 127, 0, ...: sendQ931Message sends an I-frame whose N(S) is V(S) and
\* V(S) advances by one modulo 128; an acknowledgement N(R) removes from the
\* retransmit queue exactly the I-frames of [V(A), N(R)) in modulo-128 order.
C16_SequenceWrap ==
    /\ [][(dchOp'.op = "sendQ931Message" /\ isEstablished(dch))
            => (/\ dchOp'.thrown = "none"
                /\ Len(dchOut') = 1
                /\ dchOut'[1].type = "I"
                /\ dchOut'[1].ns = dch.vs
                /\ dch'.vs = (dch.vs + 1) % Modulus)]_vars
    /\ [][(dchOp'.op = "receive" /\ dchOp'.kind = "RR" /\ isEstablished(dch))
            => IFramesPending(dch') =
                 SelectSeqBy(IFramesPending(dch),
                     {f \in Range(IFramesPending(dch)) :
                         (f.ns - dch.va) % Modulus >= (dch'.va - dch.va) % Modulus})]_vars

C18_QueuedWhileSwitching ==
    [][(nfasOp'.op = "sendQ931Message" /\ grp.state = "switching")
       => nfasOp'.thrown = "none"]_vars

\* C19: a received LAPD frame whose FCS does not equal the CRC-16 of its
\* address, control and information octets is dropped: the engine state,
\* V(S), V(R), V(A) and the retransmit queue do not change, nothing is
\* delivered upstream and no frame is sent in response.
C19_BadFCSDropped ==
    [][dchOp'.op = "receiveBadFCS"
       => (/\ dch'.state = dch.state
           /\ dch'.vs = dch.vs
           /\ dch'.vr = dch.vr
           /\ dch'.va = dch.va
           /\ dch'.acknowledgePending = dch.acknowledgePending
           /\ dchEv' = <<>>
           /\ dchOut' = <<>>)]_vars

\* C20: when no CIC is free, sendIAM returns no CIC, emits no IAM message
\* and leaves the active calls and the free pool unchanged.
C20_ExhaustedPoolFailsIAM ==
    [][(isupOp'.op = "sendIAM" /\ availableCICs = <<>>)
       => (/\ isupOp'.result = 0
           /\ isupOut' = <<>>
           /\ calls' = calls
           /\ availableCICs' = availableCICs)]_vars

\* C20, its case: every CIC of the range is owned by a call, the pool is
\* empty, and sendIAM has returned null without sending anything.
C20_Witness ==
    /\ isupOp.op = "sendIAM"
    /\ isupOp.result = 0
    /\ availableCICs = <<>>
    /\ DOMAIN calls = CICs
    /\ isupOut = <<>>

C22_StartSendsSABME ==
    [][(/\ dchOp'.op = "start"
        /\ dch.state = "down"
        /\ (dch.mode = "fas" \/ dch.primaryInterface))
       => (/\ dchOut' = <<createUnnumberedFrame("SABME", TRUE)>>
           /\ dch'.t200
           /\ dch'.state = "awaiting_establishment")]_vars

\* C23: when an engine awaiting establishment receives UA, it stops T200,
\* has V(S) = V(R) = V(A) = 0, starts T203, enters ESTABLISHED and emits
\* 'established' exactly once, and the retransmit queue no longer contains
\* the SABME.
C23_UAEstablishes ==
    [][(/\ dchOp'.op = "receive"
        /\ dchOp'.kind = "UA"
        /\ dch.state = "awaiting_establishment")
       => (/\ ~dch'.t200
           /\ dch'.vs = 0 /\ dch'.vr = 0 /\ dch'.va = 0
           /\ dch'.t203
           /\ dch'.state = "established"
           /\ dchEv' = <<"established">>
           /\ \A f \in Range(dch'.acknowledgePending) : f.sub # "SABME")]_vars

\* C24: while awaiting establishment, a received DM makes the engine
\* retransmit SABME and restart T200, staying in the awaiting-establishment
\* state (as a T200 expiry with retry < N200 does).
C24_DMRetriesEstablishment ==
    [][(/\ dchOp'.op = "receive"
        /\ dchOp'.kind = "DM"
        /\ dch.state = "awaiting_establishment"
        /\ dch.retransmissionCount < N200)
       => (/\ dchOut' = <<createUnnumberedFrame("SABME", TRUE)>>
           /\ dch'.t200
           /\ dch'.state = "awaiting_establishment")]_vars

C26_CallStatePath ==
    /\ [][(/\ isupOp'.op \in {"sendACM", "handleACM"}
           /\ isupOp'.cic \in DOMAIN calls
           /\ calls[isupOp'.cic].state \in {"outgoing_setup", "incoming_setup"})
          => (/\ isupOp'.cic \in DOMAIN calls'
              /\ calls'[isupOp'.cic].state = "call_progress")]_vars
    /\ [][(/\ isupOp'.op \in {"sendANM", "handleANM"}
           /\ isupOp'.cic \in DOMAIN calls
           /\ calls[isupOp'.cic].state = "releasing")
          => (/\ isupOp'.cic \in DOMAIN calls'
              /\ calls'[isupOp'.cic].state = "releasing")]_vars

\* C27: the engine of a backup span transmits no SABME until it is
\* promoted, and when a switchover promotes it (start() is called on it) it
\* transmits a SABME with P = 1 and starts T200.
C27_PromotedBackupSendsSABME ==
    /\ [][(/\ dch.mode = "nfas" /\ ~dch.primaryInterface
           /\ dchOp'.op # "start")
          => \A i \in 1..Len(dchOut') : dchOut'[i].sub # "SABME"]_vars
    /\ [][(/\ dch.mode = "nfas" /\ ~dch.primaryInterface
           /\ ~dch.isRunning
           /\ dchOp'.op = "start")
          => (/\ dchOut' = <<createUnnumberedFrame("SABME", TRUE)>>
              /\ dch'.t200)]_vars

\* C28: at each heartbeat tick for a group in state 'active' exactly one of
\* heartbeatsSent and heartbeatsLost is incremented: heartbeatsSent when the
\* STATUS ENQUIRY was dispatched on the active engine (an I-frame went
\* out), heartbeatsLost when it could not be dispatched.
C28_HeartbeatCounted ==
    [][(nfasOp'.op = "heartbeat" /\ grp.state = "active")
       => IF \E i \in 1..Len(nfasOut') : nfasOut'[i].type = "I"
          THEN /\ stats'.heartbeatsSent = stats.heartbeatsSent + 1
               /\ stats'.heartbeatsLost = stats.heartbeatsLost
          ELSE /\ stats'.heartbeatsSent = stats.heartbeatsSent
               /\ stats'.heartbeatsLost = stats.heartbeatsLost + 1]_vars

\* C29: every completed switchover increments switchoverCount by exactly
\* one and emits one switchoverCompleted event whose 'from' is the span that
\* was active before the switchover and whose 'to' is the span active
\* afterwards, with from # to.
C29_SwitchoverCompletedEvent ==
    [][(\E i \in 1..Len(nfasEv') : nfasEv'[i].name = "switchoverCompleted")
       => (/\ stats'.switchoverCount = stats.switchoverCount + 1
           /\ Cardinality({i \in 1..Len(nfasEv') :
                             nfasEv'[i].name = "switchoverCompleted"}) = 1
           /\ \A i \in 1..Len(nfasEv') :
                nfasEv'[i].name = "switchoverCompleted"
                  => (/\ nfasEv'[i].from = grp.activeSpan
                      /\ nfasEv'[i].to = grp'.activeSpan
                      /\ nfasEv'[i].from # nfasEv'[i].to))]_vars

\* C30: forceSwitchover(groupId, target) with a target span that is a
\* member of the group and can be established (its engine is established,
\* or start() succeeds on it) ends with the group active on exactly that
\* span, whose engine is running.
C30_ForcedTargetBecomesActive ==
    [][(/\ nfasOp'.op = "forceSwitchover"
        /\ nfasOp'.thrown = "none"
        /\ nfasOp'.span \in SpanIds
        /\ \/ isEstablished(spans[nfasOp'.span])
           \/ start(spans[nfasOp'.span]).thrown = "none")
       => (/\ grp'.state = "active"
           /\ grp'.activeSpan = nfasOp'.span
           /\ spans'[nfasOp'.span].isRunning)]_vars

\* C31: translateSIPToPRI maps a 100 response to CALL PROCEEDING, a 180
\* response to ALERTING and a 200 response to CONNECT
C31_ProvisionalResponsesMirrored ==
    (codecOp = "translateSIPToPRI" /\ codecIn[1].method = "status"
        /\ codecIn[1].code \in {100, 180, 200})
    => /\ codecOut.thrown = "none"
       /\ codecOut.value.messageType =
            (IF codecIn[1].code = 100 THEN "call_proceeding"
             ELSE IF codecIn[1].code = 180 THEN "alerting"
             ELSE "connect")

\* C32: every translation of a call session uses the cause tables of the
\* variant of the session's first translation, whatever variant the later
\* TranslationContext names
C32_SessionVariantFixed ==
    /\ codecOp = "translatePRIToSIP"
        => codecOut = translatePRIToSIP(codecIn[1], firstVariant)
    /\ codecOp = "translateISUPToSIPT"
        => codecOut = translateISUPToSIPT(codecIn[1], firstVariant)

\* C34: an engine in state DOWN is quiescent: it has no running T200 or T203
\* timer, and until start() is called it emits no supervisory or information
\* frame
C34_DownIsQuiescent ==
    [][/\ dch'.state = "down" => (~dch'.t200 /\ ~dch'.t203)
       /\ (dch.state = "down" /\ dchOp'.op # "start")
            => \A i \in 1..Len(dchOut') : dchOut'[i].type \notin {"S", "I"}]_vars

\* C35: the switchovers of the group are serialized: a trigger that arrives
\* while a performSwitchover is suspended at an await starts no second one,
\* so at most one is in progress at a time and the statistics count it once;
\* and the group is never 'active' on a span whose engine was stopped
C35_SwitchoversSerialized ==
    /\ Len(switchovers) <= 1
    /\ [][switchovers # <<>> /\ nfasOp'.op = "forceSwitchoverBegin"
            => /\ spans' = spans
               /\ grp'.activeSpan = grp.activeSpan
               /\ switchovers' = switchovers]_vars
    /\ [](grp.state = "active" => spans[grp.activeSpan].isRunning)

\* C36: no CIC is ever lost: every CIC of the configured range is in the
\* free pool or owned by an active call, and the free pool holds no CIC
\* outside the range
C36_NoCICLost ==
    /\ \A cic \in CICs : cic \in Range(availableCICs) \/ cic \in DOMAIN calls
    /\ Range(availableCICs) \subseteq CICs

\* C37: parseIAMParameters(buildIAMParameters(calling, called)) returns the
\* calling and the called number it was built from, for all non-empty
\* numbers of decimal digits
C37_IAMNumberRoundTrip ==
    codecOp = "iamRoundTrip"
    => /\ codecOut.thrown = "none"
       /\ codecOut.value.callingNumber = codecIn[1]
       /\ codecOut.value.calledNumber = codecIn[2]

\* C38: an incoming BYE for a known session is handled without an error:
\* the session is removed, sessionTerminated is emitted once and a 200
\* response for that Call-ID is emitted
C38_ByeAnsweredWith200 ==
    [][(sipOp'.op = "handleBye" /\ sipOp'.callId \in DOMAIN sessions)
       => (/\ sipOp'.thrown = "none"
           /\ sipOp'.callId \notin DOMAIN sessions'
           /\ sipEv' = <<"sessionTerminated">>
           /\ sipOut' = <<SipMsg(200, sipOp'.callId)>>)]_vars

\* C39: when forceSwitchover(groupId, target) does not make the target the
\* active span, activeSpan is again the span that was active before the call
C39_FailedForceRestoresActiveSpan ==
    [][(/\ nfasOp'.op = "forceSwitchover"
        /\ nfasOp'.span \in SpanIds
        /\ ~(grp'.state = "active" /\ grp'.activeSpan = nfasOp'.span))
       => grp'.activeSpan = grp.activeSpan]_vars

\* C40: once a Feature Group call has been cleared, no pending timer of the
\* call acts on it: no MF tone and no dialingComplete event is emitted for
\* a call that is not in the active-call table, and the call is not changed
C40_ClearedCallIsLeftAlone ==
    [][/\ \A i \in 1..Len(fgEv') :
            fgEv'[i].name \in {"mfTone", "dialingComplete"} => fgEv'[i].id \in activeCalls
       /\ \A id \in 1..Len(fgCalls) :
            id \notin activeCalls => fgCalls'[id] = fgCalls[id]]_vars

====
